---- MODULE Spec2Model ----
(***************************************************************************)
(* Change tracking and reversible audit of env-builder.                    *)
(*                                                                         *)
(* State: the application's property list (App.tsx `properties`), the two  *)
(* tables of the persistent store (DuckDBService: properties, audit_logs), *)
(* the grid's unsaved state (PropertyGrid.tsx: pendingProperties,          *)
(* deletingProperties, editedRows), the component filter, a record of the  *)
(* last handler that touched the store, the store's connection and         *)
(* catalog, and a record of the last call made on a service directly.      *)
(*                                                                         *)
(* Strings are strings.  The JavaScript values undefined and null and the  *)
(* SQL NULL are the one marker Absent; `x || d` is OrElse(x, d).           *)
(* Timestamps (lastModified, timestamp) are not modelled: the audit table  *)
(* is kept in insertion order, which is its timestamp order.  Audit ids,   *)
(* which the code builds from Date.now(), are taken from a clock that      *)
(* ticks with every grid gesture, save, delete and restore.                *)
(***************************************************************************)
EXTENDS Integers, Sequences, FiniteSets, TLC

\* Bounds of the model.
MaxClock == 2   \* grid gestures, saves and deletes of a run; a restore may
                \* follow the last of them
MaxLines == 3   \* lines of a properties file

Absent == "<absent>"
Falsy(x) == x = Absent \/ x = ""
OrElse(x, d) == IF Falsy(x) THEN d ELSE x
OrNull(x) == IF Falsy(x) THEN Absent ELSE x

Envs == {"e1", "e2"}

\* models/Property: one property.  id is conventionally environment_key.
Property(id, environment, key, value, description, component) ==
  [id |-> id, environment |-> environment, key |-> key, value |-> value,
   description |-> description, component |-> component]

EnvKey(environment, key) == environment \o "_" \o key

\* The value of an optional Property that was not given / not found.
NoProperty == [id |-> Absent]

\* ------------------------------------------------------------------------
\* Sequence helpers (Array.prototype.find / findIndex / filter / map).

RECURSIVE FindIndexFrom(_, _, _)
FindIndexFrom(s, Test(_), i) ==
  IF i > Len(s) THEN 0
  ELSE IF Test(s[i]) THEN i
  ELSE FindIndexFrom(s, Test, i + 1)

FindIndex(s, Test(_)) == FindIndexFrom(s, Test, 1)

Find(s, Test(_)) ==
  LET i == FindIndex(s, Test) IN IF i = 0 THEN NoProperty ELSE s[i]

Filter(s, Test(_)) == SelectSeq(s, Test)

Range(s) == {s[i] : i \in 1..Len(s)}

IsPrefix(s, t) == Len(s) <= Len(t) /\ SubSeq(t, 1, Len(s)) = s

\* ------------------------------------------------------------------------
\* DuckDBService.insertProperties: DELETE FROM properties, then one INSERT
\* per property in order.  Each statement commits on its own; an INSERT
\* whose id is already in the table violates the primary key and throws,
\* leaving the rows inserted so far.

PropertyRow(p) ==
  [id |-> p.id, environment |-> p.environment, key |-> p.key, value |-> p.value,
   description |-> OrNull(p.description),
   component |-> OrElse(p.component, "env")]

RECURSIVE InsertRows(_, _, _)
InsertRows(rows, props, i) ==
  IF i > Len(props) THEN [ok |-> TRUE, rows |-> rows]
  ELSE IF \E r \in Range(rows) : r.id = props[i].id
       THEN [ok |-> FALSE, rows |-> rows]
       ELSE InsertRows(Append(rows, PropertyRow(props[i])), props, i + 1)

insertProperties(props) == InsertRows(<< >>, props, 1)

\* ------------------------------------------------------------------------
\* AuditService.

\* The text JSON.stringify gives for a batch payload is modelled by the tag
\* JsonText in newValue together with the structure the text denotes in the
\* entry's json field; any other newValue is text that is not JSON.
JsonText == "<json>"
EmptyObject == [changes |-> << >>, deletions |-> << >>]

AuditLog(action, property) ==
  [action |-> action, recordId |-> property.id, propertyKey |-> property.key,
   environment |-> property.environment, component |-> property.component,
   oldValue |-> Absent, newValue |-> Absent,
   oldDescription |-> Absent, newDescription |-> Absent,
   json |-> EmptyObject]

\* A faulty variant: CREATE and DELETE fill each other's fields.
createAuditLogSwapped(action, property, oldProperty) ==
  LET base == AuditLog(action, property) IN
  IF action = "UPDATE" /\ oldProperty # NoProperty
  THEN [base EXCEPT !.oldValue = oldProperty.value, !.newValue = property.value,
                    !.oldDescription = oldProperty.description,
                    !.newDescription = property.description]
  ELSE IF action = "CREATE"
  THEN [base EXCEPT !.oldValue = property.value,
                    !.oldDescription = property.description]
  ELSE IF action = "DELETE"
  THEN [base EXCEPT !.newValue = property.value,
                    !.newDescription = property.description]
  ELSE base

\* A faulty variant: RESTORE takes the branch of UPDATE.
createAuditLogRestoreAsUpdate(action, property, oldProperty) ==
  LET base == AuditLog(action, property) IN
  IF action \in {"UPDATE", "RESTORE"} /\ oldProperty # NoProperty
  THEN [base EXCEPT !.oldValue = oldProperty.value, !.newValue = property.value,
                    !.oldDescription = oldProperty.description,
                    !.newDescription = property.description]
  ELSE IF action = "CREATE"
  THEN [base EXCEPT !.newValue = property.value,
                    !.newDescription = property.description]
  ELSE IF action = "DELETE"
  THEN [base EXCEPT !.oldValue = property.value,
                    !.oldDescription = property.description]
  ELSE base

createAuditLog(action, property, oldProperty) ==
  LET base == AuditLog(action, property) IN
  IF action = "UPDATE" /\ oldProperty # NoProperty
  THEN [base EXCEPT !.oldValue = oldProperty.value, !.newValue = property.value,
                    !.oldDescription = oldProperty.description,
                    !.newDescription = property.description]
  ELSE IF action = "CREATE"
  THEN [base EXCEPT !.newValue = property.value,
                    !.newDescription = property.description]
  ELSE IF action = "DELETE"
  THEN [base EXCEPT !.oldValue = property.value,
                    !.oldDescription = property.description]
  ELSE base

\* JSON.stringify drops a member whose value is undefined, so a change whose
\* original was not found carries no originalProperty.
BatchChange(change, originalProperties) ==
  [property |-> change,
   originalProperty |-> Find(originalProperties, LAMBDA p : p.id = change.id)]

createBatchOperationAuditLog(changes, deletions, originalProperties) ==
  [action |-> "BATCH", recordId |-> "batch",
   propertyKey |-> "batch_operation_"
                     \o ToString(Len(changes) + Len(deletions)) \o "_properties",
   environment |-> "multiple", component |-> "multiple",
   oldValue |-> ToString(Len(changes) + Len(deletions)) \o " operations",
   newValue |-> JsonText,
   oldDescription |-> Absent, newDescription |-> Absent,
   json |-> [changes |-> [i \in 1..Len(changes) |->
                            BatchChange(changes[i], originalProperties)],
             deletions |-> deletions]]

\* DuckDBService.insertAuditLog: the row the INSERT stores.  A falsy
\* oldValue, newValue, oldDescription or newDescription is stored as NULL.
AuditRow(id, a) ==
  [id |-> id, action |-> a.action, recordId |-> a.recordId,
   propertyKey |-> a.propertyKey, environment |-> a.environment,
   component |-> a.component,
   oldValue |-> OrNull(a.oldValue), newValue |-> OrNull(a.newValue),
   oldDescription |-> OrNull(a.oldDescription),
   newDescription |-> OrNull(a.newDescription),
   json |-> IF a.newValue = JsonText THEN a.json ELSE EmptyObject]

\* A faulty variant: the INSERT replaces the table.
insertAuditLogOverwriting(table, id, a) == <<AuditRow(id, a)>>

insertAuditLog(table, id, a) == Append(table, AuditRow(id, a))

\* A faulty variant: nothing is written.
insertAuditLogsDropping(table, id, logs) == table

\* DuckDBService.insertAuditLogs: insertAuditLog for each entry in turn.
RECURSIVE insertAuditLogs(_, _, _)
insertAuditLogs(table, id, logs) ==
  IF logs = << >> THEN table
  ELSE insertAuditLogs(insertAuditLog(table, id, Head(logs)), id + 1, Tail(logs))

\* ------------------------------------------------------------------------
\* State.

VARIABLES
  properties,          \* App.tsx: useState<Property[]>
  dbProps,             \* table properties of the persistent store
  auditLogs,           \* table audit_logs, in insertion (timestamp) order
  clock,              \* the time audit ids are taken from
  selectedComponent,   \* App.tsx: the component filter
  pendingProperties,   \* PropertyGrid.tsx: created, not yet saved
  deletingProperties,  \* PropertyGrid.tsx: marked for deletion, not yet saved
  editedRows,          \* PropertyGrid.tsx: edited grid rows, in insertion order
  last,                \* the last handler that touched the store
  conn,                \* DuckDBService.conn is not null
  catalog,             \* the tables that exist in the database
  call,                \* the last call made on a service directly
  running              \* the handler invocations started and how far each is

vars == <<properties, dbProps, auditLogs, clock, selectedComponent,
          pendingProperties, deletingProperties, editedRows, last,
          conn, catalog, call, running>>

gridVars == <<pendingProperties, deletingProperties, editedRows>>
storeVars == <<properties, dbProps, auditLogs>>
serviceVars == <<conn, catalog, call>>
appVars == <<properties, clock, selectedComponent, gridVars, last, running>>

\* The tables DuckDBService.createTables creates.
Tables == {"properties", "audit_logs"}

NoCall == [op |-> "none"]

NoEntry == [id |-> 0]

\* What a handler leaves behind for the properties below to read.
Last(op) ==
  [op |-> op, ok |-> TRUE, preDb |-> dbProps, preLog |-> Len(auditLogs),
   entry |-> NoEntry, appended |-> NoEntry,
   changes |-> << >>, deletions |-> << >>, inStore |-> FALSE,
   restored |-> << >>, deleted |-> << >>,
   rightAfter |-> FALSE, mutPre |-> << >>,
   made |-> << >>]

\* One call of createAuditLog: its arguments and the entry it returned.
Made(action, property, oldProperty) ==
  [action |-> action, property |-> property, oldProperty |-> oldProperty,
   result |-> createAuditLog(action, property, oldProperty)]

\* ------------------------------------------------------------------------
\* The JavaScript Map of handleBatchSave: entries in insertion order; set on
\* a key already present replaces the value in place.

MapIndex(m, k) == FindIndex(m, LAMBDA e : e.k = k)

MapSet(m, k, v) ==
  LET i == MapIndex(m, k) IN
  IF i = 0 THEN Append(m, [k |-> k, v |-> v])
  ELSE [m EXCEPT ![i] = [k |-> k, v |-> v]]

MapDelete(m, k) == Filter(m, LAMBDA e : e.k # k)

MapValues(m) == [i \in 1..Len(m) |-> m[i].v]

RECURSIVE MapOfProperties(_, _, _)
MapOfProperties(m, props, i) ==
  IF i > Len(props) THEN m
  ELSE MapOfProperties(
         MapSet(m, EnvKey(props[i].environment, props[i].key), props[i]),
         props, i + 1)

RECURSIVE ApplyDeletions(_, _, _)
ApplyDeletions(m, deletions, i) ==
  IF i > Len(deletions) THEN m
  ELSE ApplyDeletions(
         MapDelete(m, EnvKey(deletions[i].environment, deletions[i].key)),
         deletions, i + 1)

\* App.handleBatchSave, lines 266-300: the property list after the save.
UpdatedProperties(props, changes, deletions) ==
  MapValues(
    MapOfProperties(
      ApplyDeletions(MapOfProperties(<< >>, props, 1), deletions, 1),
      changes, 1))

\* App.handleBatchSave, lines 302-347: the one audit entry the save writes.
\* An operation count of exactly one gives the single-item entry; any other
\* count, zero included, takes the batch branch.
SingleAuditLog(props, changes, deletions) ==
  IF Len(deletions) = 1
  THEN Made("DELETE", deletions[1], NoProperty)
  ELSE LET change == changes[1]
           originalProperty == Find(props, LAMBDA p : p.id = change.id)
       IN IF originalProperty # NoProperty
          THEN Made("UPDATE", change, originalProperty)
          ELSE Made("CREATE", change, NoProperty)

\* A faulty variant: a single deletion counts as a batch.
IsSingleChange(changes, deletions) ==
  Len(changes) = 1 /\ Len(deletions) = 0

IsSingleOperation(changes, deletions) ==
  Len(changes) + Len(deletions) = 1

\* ------------------------------------------------------------------------
\* AuditPage.handleRestore: the restore resolver.

\* JSON.parse(selectedLog.newValue || '{}'): a missing newValue parses as the
\* empty object, the text of a payload as the payload, any other text throws.
ParseThrows(entry) == ~Falsy(entry.newValue) /\ entry.newValue # JsonText

BatchData(entry) ==
  IF Falsy(entry.newValue) THEN EmptyObject ELSE entry.json

RECURSIVE ReversedChanges(_, _, _)
ReversedChanges(changes, i, acc) ==
  IF i > Len(changes) THEN acc
  ELSE IF changes[i].originalProperty # NoProperty
       THEN ReversedChanges(changes, i + 1,
              [acc EXCEPT !.restored = Append(@, changes[i].originalProperty)])
       ELSE ReversedChanges(changes, i + 1,
              [acc EXCEPT !.deleted = Append(@, changes[i].property)])

\* A faulty variant: the deletions of the payload are not reversed.
ReversedDeletionsDropped(acc, deletions) == acc

ReversedDeletions(acc, deletions) ==
  [acc EXCEPT !.restored = @ \o deletions]

BatchRestoreProperty ==
  Property("batch_restore", "multiple", "batch_restore", "", "", "multiple")

\* The inverse operations of an entry and the audit entry that records the
\* restore: [restored, deleted, audit].  Lines 132-194: a BATCH entry.
ResolveBatch(entry) ==
  LET batchData == BatchData(entry)
      ops == ReversedDeletions(
               ReversedChanges(batchData.changes, 1,
                               [restored |-> << >>, deleted |-> << >>]),
               batchData.deletions)
      subject == IF ops.restored # << >> THEN ops.restored[1]
                 ELSE IF ops.deleted # << >> THEN ops.deleted[1]
                 ELSE BatchRestoreProperty
  IN [restored |-> ops.restored, deleted |-> ops.deleted,
      audit |-> Made("RESTORE", subject, NoProperty)]

\* Lines 221-257: an UPDATE or DELETE entry.
ResolvePrevious(entry) ==
  LET restoredProperty ==
        Property(entry.recordId, entry.environment, entry.propertyKey,
                 OrElse(entry.oldValue, ""), OrElse(entry.oldDescription, ""),
                 entry.component)
  IN [restored |-> <<restoredProperty>>, deleted |-> << >>,
      audit |-> Made("RESTORE", restoredProperty, NoProperty)]

\* A faulty variant: a CREATE entry handled as an UPDATE or DELETE entry.
ResolveCreateAsPrevious(entry) == ResolvePrevious(entry)

\* Lines 195-220: a CREATE entry.
ResolveCreate(entry) ==
  LET propertyToDelete ==
        Property(entry.recordId, entry.environment, entry.propertyKey,
                 OrElse(entry.newValue, ""), OrElse(entry.newDescription, ""),
                 entry.component)
  IN [restored |-> << >>, deleted |-> <<propertyToDelete>>,
      audit |-> Made("DELETE", propertyToDelete, NoProperty)]

Resolve(entry) ==
  IF entry.action = "BATCH" THEN ResolveBatch(entry)
  ELSE IF entry.action = "CREATE" THEN ResolveCreate(entry)
  ELSE ResolvePrevious(entry)

\* App.handleRestore, lines 446-463: deletions by id first, then each
\* restored property replaces the property of its id or is pushed.
RECURSIVE RemoveDeleted(_, _, _)
RemoveDeleted(props, deletions, i) ==
  IF i > Len(deletions) THEN props
  ELSE RemoveDeleted(Filter(props, LAMBDA p : p.id # deletions[i].id),
                     deletions, i + 1)

Upsert(props, restoredProp) ==
  LET index == FindIndex(props, LAMBDA p : p.id = restoredProp.id) IN
  IF index > 0 THEN [props EXCEPT ![index] = restoredProp]
  ELSE Append(props, restoredProp)

RECURSIVE ApplyRestored(_, _, _)
ApplyRestored(props, restored, i) ==
  IF i > Len(restored) THEN props
  ELSE ApplyRestored(Upsert(props, restored[i]), restored, i + 1)

RestoredProperties(props, restored, deletions) ==
  ApplyRestored(RemoveDeleted(props, deletions, 1), restored, 1)

\* ------------------------------------------------------------------------
\* PropertyGrid: the key-by-environment matrix and its diff.

AllEnvs == Envs \cup {"default"}
\* Array.prototype.sort() of the environment names.
EnvOrder == <<"default", "e1", "e2">>

EnvironmentsOf(props) ==
  SelectSeq(EnvOrder, LAMBDA e : \E p \in Range(props) : p.environment = e)

\* App.tsx, lines 571-573 (no key filter).
filteredProperties ==
  IF selectedComponent = "all" THEN properties
  ELSE Filter(properties, LAMBDA p : p.component = selectedComponent)

environments == EnvironmentsOf(filteredProperties)

GroupedProperty(p) ==
  [id |-> p.key, key |-> p.key, description |-> OrElse(p.description, ""),
   component |-> p.component, vals |-> [e \in AllEnvs |-> Absent]]

RECURSIVE Grouped(_, _, _)
Grouped(rows, props, i) ==
  IF i > Len(props) THEN rows
  ELSE LET p == props[i]
           at == FindIndex(rows, LAMBDA r : r.id = p.key)
           withRow == IF at = 0 THEN Append(rows, GroupedProperty(p)) ELSE rows
           j == IF at = 0 THEN Len(withRow) ELSE at
       IN Grouped([withRow EXCEPT ![j].vals[p.environment] = p.value],
                  props, i + 1)

groupedProperties == Grouped(<< >>, filteredProperties \o pendingProperties, 1)

RowOf(rows, id) == LET i == FindIndex(rows, LAMBDA r : r.id = id)
                   IN IF i = 0 THEN NoProperty ELSE rows[i]

\* A faulty variant: only a changed value counts.
RowChangeByValue(editedRow, originalRow, env) ==
  LET newValue == editedRow.vals[env]
      existingProperty ==
        Find(filteredProperties,
             LAMBDA p : p.key = originalRow.key /\ p.environment = env)
  IN IF originalRow.vals[env] = newValue THEN << >>
     ELSE IF existingProperty # NoProperty
     THEN <<[existingProperty EXCEPT !.key = editedRow.key,
                                     !.value = OrElse(newValue, ""),
                                     !.description = editedRow.description]>>
     ELSE IF ~Falsy(newValue)
     THEN <<Property(EnvKey(env, editedRow.key), env, editedRow.key, newValue,
                     editedRow.description, editedRow.component)>>
     ELSE << >>

\* PropertyGrid.handleSave, lines 305-348: the change list of a save.
RowChange(editedRow, originalRow, env) ==
  LET keyChanged == editedRow.key # originalRow.key
      descriptionChanged == editedRow.description # originalRow.description
      newValue == editedRow.vals[env]
      valueChanged == originalRow.vals[env] # newValue
      existingProperty ==
        Find(filteredProperties,
             LAMBDA p : p.key = originalRow.key /\ p.environment = env)
  IN IF ~(keyChanged \/ descriptionChanged \/ valueChanged) THEN << >>
     ELSE IF existingProperty # NoProperty
     THEN <<[existingProperty EXCEPT !.key = editedRow.key,
                                     !.value = OrElse(newValue, ""),
                                     !.description = editedRow.description]>>
     ELSE IF ~Falsy(newValue)
     THEN <<Property(EnvKey(env, editedRow.key), env, editedRow.key, newValue,
                     editedRow.description, editedRow.component)>>
     ELSE << >>

RECURSIVE RowChanges(_, _, _)
RowChanges(editedRow, originalRow, i) ==
  IF i > Len(environments) THEN << >>
  ELSE RowChange(editedRow, originalRow, environments[i])
         \o RowChanges(editedRow, originalRow, i + 1)

RECURSIVE EditedChanges(_)
EditedChanges(i) ==
  IF i > Len(editedRows) THEN << >>
  ELSE LET originalRow == RowOf(groupedProperties, editedRows[i].id)
       IN (IF originalRow = NoProperty THEN << >>
           ELSE RowChanges(editedRows[i], originalRow, 1))
          \o EditedChanges(i + 1)

GridChanges == pendingProperties \o EditedChanges(1)

hasChanges ==
  editedRows # << >> \/ pendingProperties # << >> \/ deletingProperties # << >>

\* ------------------------------------------------------------------------
\* Inputs: folders to initialize from and snapshots to import.

Line(environment, component, key, value, description) ==
  [environment |-> environment, component |-> component, key |-> key,
   value |-> value, description |-> description]

\* The parsed property lines of a folder, in scan order.
Folders ==
  { <<Line("e1", "env", "k1", "v1", "d1"), Line("e1", "env", "k2", "v1", "d1"),
      Line("e2", "env", "k1", "v1", "")>> }

\* FolderInitializationService.convertToProperties, lines 384-430.
convertToProperties(folder) ==
  [i \in 1..Len(folder) |->
     Property(EnvKey(folder[i].environment, folder[i].key),
              folder[i].environment, folder[i].key, folder[i].value,
              OrElse(folder[i].description, "Loaded from file"),
              folder[i].component)]

\* A BATCH row of an imported audit table.
ImportedBatch(id, newValue, json) ==
  [id |-> id, action |-> "BATCH", recordId |-> "batch",
   propertyKey |-> "batch_operation_3_properties",
   environment |-> "multiple", component |-> "multiple",
   oldValue |-> "3 operations", newValue |-> newValue,
   oldDescription |-> Absent, newDescription |-> Absent, json |-> json]

\* The payload of an earlier batch save: an update, a create and a deletion.
ImportedPayload ==
  [changes |->
     <<[property |-> Property("e1_k1", "e1", "k1", "v2", "d1", "env"),
        originalProperty |-> Property("e1_k1", "e1", "k1", "v1", "d1", "env")],
       [property |-> Property("e2_k2", "e2", "k2", "v2", "d2", "env"),
        originalProperty |-> NoProperty]>>,
   deletions |-> <<Property("e1_k2", "e1", "k2", "v1", "d2", "env")>>]

\* Combined snapshots: the rows of table_type properties and audit_logs.
\* The audit rows are a batch entry without newValue, one whose newValue is
\* not JSON, and one with a payload.
Snapshots ==
  { [props |-> <<Property("e1_k1", "e1", "k1", "v2", Absent, "env")>>,
     audits |-> <<ImportedBatch(101, Absent, EmptyObject),
                  ImportedBatch(102, "v1", EmptyObject),
                  ImportedBatch(103, JsonText, ImportedPayload)>>] }

KeyOrder == <<"k1", "k2", "k3">>
Rank(order, x) == FindIndex(order, LAMBDA y : y = x)

\* ORDER BY environment, key.
Before(p, q) ==
  \/ Rank(EnvOrder \o <<"multiple">>, p.environment)
       < Rank(EnvOrder \o <<"multiple">>, q.environment)
  \/ /\ p.environment = q.environment
     /\ Rank(KeyOrder, p.key) < Rank(KeyOrder, q.key)

RECURSIVE OrderByEnvironmentKey(_)
OrderByEnvironmentKey(rows) ==
  IF rows = << >> THEN << >>
  ELSE LET first == CHOOSE i0 \in 1..Len(rows) :
                      /\ \A j \in 1..Len(rows) : ~Before(rows[j], rows[i0])
                      /\ \A j \in 1..(i0 - 1) : Before(rows[i0], rows[j])
       IN <<rows[first]>>
          \o OrderByEnvironmentKey(
               [k \in 1..(Len(rows) - 1) |->
                  IF k < first THEN rows[k] ELSE rows[k + 1]])

\* ------------------------------------------------------------------------
\* Handlers.

Init ==
  /\ properties = << >>
  /\ dbProps = << >>
  /\ auditLogs = << >>
  /\ clock = 0
  /\ selectedComponent = "all"
  /\ pendingProperties = << >>
  /\ deletingProperties = << >>
  /\ editedRows = << >>
  /\ last = Last("init")
  /\ conn = TRUE
  /\ catalog = Tables
  /\ call = NoCall
  /\ running = << >>

\* App.handleFolderInitialization, lines 372-419.
FolderInit ==
  \E folder \in Folders :
    LET folderProperties == convertToProperties(folder)
        ins == insertProperties(folderProperties)
    IN /\ dbProps' = ins.rows
       /\ properties' = IF ins.ok THEN folderProperties ELSE properties
       /\ last' = [Last("folder") EXCEPT !.ok = ins.ok, !.preDb = << >>,
                                         !.preLog = 0]
       /\ UNCHANGED <<auditLogs, clock, selectedComponent, gridVars, serviceVars, running>>

\* App.handleImport -> DuckDBService.importFromParquet of a combined
\* snapshot: both tables are replaced, the property list is re-read.
Import ==
  \E snapshot \in Snapshots :
    /\ dbProps' = snapshot.props
    /\ auditLogs' = snapshot.audits
    /\ properties' = OrderByEnvironmentKey(dbProps')
    /\ last' = [Last("import") EXCEPT !.preDb = << >>, !.preLog = 0]
    /\ UNCHANGED <<clock, selectedComponent, gridVars, serviceVars, running>>

\* ComponentSelector: 'all' or a component of the property list.
SelectComponent ==
  \E c \in {"all"} \cup {p.component : p \in Range(properties)} :
    /\ c # selectedComponent
    /\ selectedComponent' = c
    /\ UNCHANGED <<storeVars, clock, gridVars, last, serviceVars, running>>

\* PropertyEditor.handleSave (new property) -> App.handleSaveProperty,
\* lines 227-232: one pending property per environment with a value.  The
\* editor's key and description are required; a key is added once per save.
EditorEnvironments ==
  IF EnvironmentsOf(properties) = << >> THEN <<"default">>
  ELSE EnvironmentsOf(properties)

NewProperties(key, description, component, environmentValues) ==
  LET envs == SelectSeq(EditorEnvironments,
                        LAMBDA e : ~Falsy(environmentValues[e]))
  IN [i \in 1..Len(envs) |->
        Property(EnvKey(envs[i], key), envs[i], key, environmentValues[envs[i]],
                 description, component)]

AddProperty ==
  \E key \in {"k2"}, description \in {"d1"}, component \in {"env"},
     environmentValues \in [AllEnvs -> {"", "v2"}] :
    LET propertiesToSave ==
          NewProperties(key, description, component, environmentValues)
    IN /\ propertiesToSave # << >>
       /\ \A p \in Range(pendingProperties) : p.key # key
       /\ clock < MaxClock
       /\ clock' = clock + 1
       /\ pendingProperties' = pendingProperties \o propertiesToSave
       /\ UNCHANGED <<storeVars, selectedComponent, deletingProperties,
                      editedRows, last, serviceVars, running>>

\* App.handleRemoveEnvironment, lines 546-569, from the column header of a
\* component view.  An environment is marked once per save.
RemoveEnvironment ==
  \E environment \in Range(environments) :
    LET propertiesToRemove ==
          Filter(properties, LAMBDA p : /\ p.environment = environment
                                        /\ p.component = selectedComponent)
    IN /\ selectedComponent # "all"
       /\ propertiesToRemove # << >>
       /\ \A p \in Range(deletingProperties) : p.environment # environment
       /\ clock < MaxClock
       /\ clock' = clock + 1
       /\ deletingProperties' = deletingProperties \o propertiesToRemove
       /\ UNCHANGED <<storeVars, selectedComponent, pendingProperties,
                      editedRows, last, serviceVars, running>>

\* PropertyGrid.handleCellEdit, lines 219-245: the row as displayed with one
\* cell changed.  A row is edited in one cell per save.
DisplayRow(row) ==
  LET e == RowOf(editedRows, row.id) IN IF e = NoProperty THEN row ELSE e

WithCell(row, field, v) ==
  IF field = "key" THEN [row EXCEPT !.key = v]
  ELSE IF field = "description" THEN [row EXCEPT !.description = v]
  ELSE [row EXCEPT !.vals[field] = v]

EditedRowsAfter(newRow) ==
  LET originalRow == RowOf(groupedProperties, newRow.id)
      at == FindIndex(editedRows, LAMBDA r : r.id = newRow.id)
  IN IF originalRow = NoProperty THEN editedRows
     ELSE IF newRow # originalRow
     THEN IF at = 0 THEN Append(editedRows, newRow)
          ELSE [editedRows EXCEPT ![at] = newRow]
     ELSE Filter(editedRows, LAMBDA r : r.id # newRow.id)

CellEdit ==
  \E i \in 1..Len(groupedProperties),
     field \in {"key", "description"} \cup Range(environments) :
    \E v \in (IF field = "key" THEN {"k3"}
              ELSE IF field = "description" THEN {"d2"}
              ELSE {"", "v2"}) :
      LET row == DisplayRow(groupedProperties[i])
          newRow == WithCell(row, field, v)
      IN /\ newRow # row
         /\ RowOf(editedRows, row.id) = NoProperty
         /\ clock < MaxClock
         /\ clock' = clock + 1
         /\ editedRows' = EditedRowsAfter(newRow)
         /\ UNCHANGED <<storeVars, selectedComponent, pendingProperties,
                        deletingProperties, last, serviceVars, running>>

\* PropertyGrid.handleCancel, lines 384-389.
Cancel ==
  /\ hasChanges
  /\ editedRows' = << >>
  /\ pendingProperties' = << >>
  /\ deletingProperties' = << >>
  /\ UNCHANGED <<storeVars, clock, selectedComponent, last, serviceVars, running>>

\* PropertyGrid.handleSave and handleConfirmSave -> App.handleBatchSave.
\* handleBatchSave catches its own errors, so the grid state is cleared
\* whether or not the save went through.
Save ==
  LET changes == GridChanges
      deletions == deletingProperties
      updatedProperties == UpdatedProperties(properties, changes, deletions)
      ins == insertProperties(updatedProperties)
      made == IF IsSingleOperation(changes, deletions)
              THEN <<SingleAuditLog(properties, changes, deletions)>>
              ELSE << >>
      table == IF made # << >>
               THEN insertAuditLogs(auditLogs, clock + 1, <<made[1].result>>)
               ELSE insertAuditLog(auditLogs, clock + 1,
                      createBatchOperationAuditLog(changes, deletions, properties))
  IN /\ hasChanges
     /\ clock < MaxClock
     /\ dbProps' = ins.rows
     /\ properties' = IF ins.ok THEN updatedProperties ELSE properties
     /\ auditLogs' = IF ins.ok THEN table ELSE auditLogs
     /\ clock' = clock + 1
     /\ editedRows' = << >>
     /\ pendingProperties' = << >>
     /\ deletingProperties' = << >>
     /\ last' = [Last("save") EXCEPT
                   !.ok = ins.ok,
                   !.changes = changes, !.deletions = deletions,
                   !.inStore = /\ Len(changes) = 1
                               /\ \E p \in Range(properties) : p.id = changes[1].id,
                   !.appended = IF ins.ok /\ Len(table) > Len(auditLogs)
                                THEN table[Len(table)] ELSE NoEntry,
                   !.made = made]
     /\ UNCHANGED <<selectedComponent, serviceVars, running>>

\* A faulty variant: the delete writes no audit entry.
DeletePropertyUnaudited ==
  \E propertyToDelete \in Range(filteredProperties) :
    LET id == propertyToDelete.id
        propertiesToDelete ==
          Filter(filteredProperties, LAMBDA p : p.key = propertyToDelete.key)
        found == Find(properties, LAMBDA p : p.id = id)
        updatedProperties == Filter(properties, LAMBDA p : p.id # id)
        made == Made("DELETE", found, NoProperty)
        ins == insertProperties(updatedProperties)
        table == insertAuditLog(auditLogs, clock + 1, made.result)
    IN /\ clock < MaxClock
       /\ Len(propertiesToDelete) = 1
       /\ dbProps' = ins.rows
       /\ properties' = IF ins.ok THEN updatedProperties ELSE properties
       /\ auditLogs' = auditLogs
       /\ clock' = clock + 1
       /\ last' = [Last("delete") EXCEPT
                     !.ok = ins.ok,
                     !.deletions = <<found>>,
                     !.appended = IF ins.ok /\ Len(table) > Len(auditLogs)
                                THEN table[Len(table)] ELSE NoEntry,
                     !.made = <<made>>]
       /\ UNCHANGED <<selectedComponent, gridVars, serviceVars, running>>

\* The grid's Delete action (PropertyGrid.tsx, lines 650-664) on a row whose
\* key has one property in the grid's view: one call of
\* App.handleDeleteProperty, lines 241-260.
DeleteProperty ==
  \E propertyToDelete \in Range(filteredProperties) :
    LET id == propertyToDelete.id
        propertiesToDelete ==
          Filter(filteredProperties, LAMBDA p : p.key = propertyToDelete.key)
        found == Find(properties, LAMBDA p : p.id = id)
        updatedProperties == Filter(properties, LAMBDA p : p.id # id)
        made == Made("DELETE", found, NoProperty)
        ins == insertProperties(updatedProperties)
        table == insertAuditLog(auditLogs, clock + 1, made.result)
    IN /\ clock < MaxClock
       /\ Len(propertiesToDelete) = 1
       /\ dbProps' = ins.rows
       /\ properties' = IF ins.ok THEN updatedProperties ELSE properties
       /\ auditLogs' = IF ins.ok THEN table ELSE auditLogs
       /\ clock' = clock + 1
       /\ last' = [Last("delete") EXCEPT
                     !.ok = ins.ok,
                     !.deletions = <<found>>,
                     !.appended = IF ins.ok /\ Len(table) > Len(auditLogs)
                                THEN table[Len(table)] ELSE NoEntry,
                     !.made = <<made>>]
       /\ UNCHANGED <<selectedComponent, gridVars, serviceVars, running>>

\* AuditPage.handleRestore -> App.handleRestore, on an entry the audit page
\* offers for restore.  The audit page replaces the grid, whose unsaved
\* state is gone when the main page is shown again.
canRestore(entry) == entry.action \in {"UPDATE", "DELETE", "CREATE", "BATCH"}

Restore ==
  \E n \in 1..Len(auditLogs) :
    LET selectedLog == auditLogs[n]
        throws == selectedLog.action = "BATCH" /\ ParseThrows(selectedLog)
        r == Resolve(selectedLog)
        table == insertAuditLog(auditLogs, clock + 1, r.audit.result)
        updatedProperties == RestoredProperties(properties, r.restored, r.deleted)
        ins == insertProperties(updatedProperties)
        rightAfter == /\ last.op \in {"save", "delete"}
                      /\ last.appended = selectedLog
    IN /\ canRestore(selectedLog)
       /\ clock <= MaxClock
       /\ IF throws
          THEN /\ UNCHANGED <<storeVars, clock>>
               /\ last' = [Last("restore") EXCEPT !.ok = FALSE,
                                                  !.entry = selectedLog]
          ELSE /\ auditLogs' = table
               /\ clock' = clock + 1
               /\ dbProps' = ins.rows
               /\ properties' = IF ins.ok THEN updatedProperties ELSE properties
               /\ last' = [Last("restore") EXCEPT
                             !.ok = ins.ok,
                             !.entry = selectedLog,
                             !.appended = table[Len(table)],
                             !.restored = r.restored, !.deleted = r.deleted,
                             !.rightAfter = rightAfter,
                             !.mutPre = IF rightAfter THEN last.preDb ELSE << >>,
                             !.made = <<r.audit>>]
       /\ editedRows' = << >>
       /\ pendingProperties' = << >>
       /\ deletingProperties' = << >>
       /\ UNCHANGED <<selectedComponent, serviceVars, running>>

Next ==
  \/ FolderInit
  \/ Import
  \/ SelectComponent
  \/ AddProperty
  \/ RemoveEnvironment
  \/ CellEdit
  \/ Cancel
  \/ Save
  \/ DeleteProperty
  \/ Restore

Spec == Init /\ [][Next]_vars

\* ------------------------------------------------------------------------
\* AuditService.createAuditLog called on its own: every action of
\* AuditLog['action'], a property, and an oldProperty or none.

Actions == {"CREATE", "UPDATE", "DELETE", "RESTORE", "BATCH"}

AuditProperties ==
  { Property("e1_k1", "e1", "k1", value, description, "env") :
      value \in {"", "v1", "v2"}, description \in {Absent, "d1"} }

\* The application before its store is opened.
Idle ==
  /\ properties = << >>
  /\ dbProps = << >>
  /\ auditLogs = << >>
  /\ clock = 0
  /\ selectedComponent = "all"
  /\ pendingProperties = << >>
  /\ deletingProperties = << >>
  /\ editedRows = << >>
  /\ last = Last("init")
  /\ conn = FALSE
  /\ catalog = {}
  /\ running = << >>

Unopened == Idle /\ call = NoCall

CreateAuditLogCall ==
  \E action \in Actions, property \in AuditProperties,
     oldProperty \in AuditProperties \cup {NoProperty} :
    /\ call' = [op |-> "createAuditLog",
                made |-> Made(action, property, oldProperty)]
    /\ UNCHANGED <<storeVars, appVars, conn, catalog>>

AuditSpec == Unopened /\ [][CreateAuditLogCall]_vars

\* ------------------------------------------------------------------------
\* DuckDBService: snapshots.  A snapshot file is its format, the columns of
\* the table read_parquet gives, and its rows in order.  last_modified,
\* timestamp and the order columns are not modelled.

PropertyColumns ==
  {"id", "environment", "key", "value", "description", "component"}

AuditColumns ==
  {"id", "action", "record_id", "property_key", "environment", "component",
   "old_value", "new_value", "old_description", "new_description"}

CombinedColumns == {"table_type"} \cup PropertyColumns \cup AuditColumns

\* exportToParquet, lines 123-146: the row of a property.
ExportedProperty(r) ==
  [table_type |-> "properties", id |-> r.id, environment |-> r.environment,
   key |-> r.key, value |-> r.value, description |-> r.description,
   component |-> r.component, action |-> Absent, record_id |-> Absent,
   property_key |-> Absent, old_value |-> Absent, new_value |-> Absent,
   old_description |-> Absent, new_description |-> Absent,
   json |-> EmptyObject]

\* exportToParquet, lines 150-173: the row of an audit entry.
ExportedAuditLog(a) ==
  [table_type |-> "audit_logs", id |-> a.id, environment |-> a.environment,
   key |-> a.propertyKey, value |-> a.newValue,
   description |-> a.newDescription, component |-> a.component,
   action |-> a.action, record_id |-> a.recordId,
   property_key |-> a.propertyKey, old_value |-> a.oldValue,
   new_value |-> a.newValue, old_description |-> a.oldDescription,
   new_description |-> a.newDescription, json |-> a.json]

\* ORDER BY table_type, environment, key: 'audit_logs' sorts before
\* 'properties'.  The order of rows that agree in all three is not given
\* by the statement: an export is the rows in any order that the three
\* columns allow.  An order is a permutation of the table's row numbers.
IsOrdered(rows) ==
  \A i \in 1..Len(rows), j \in 1..Len(rows) :
    i < j => ~Before(rows[j], rows[i])

Orderings(rows) ==
  {f \in [1..Len(rows) -> 1..Len(rows)] :
     /\ \A i \in 1..Len(rows), j \in 1..Len(rows) : f[i] = f[j] => i = j
     /\ IsOrdered([i \in 1..Len(rows) |-> rows[f[i]]])}

CombinedExport(props, audits, propertyOrder, auditOrder) ==
  [format |-> "parquet", columns |-> CombinedColumns,
   rows |->
     [i \in 1..Len(audits) |-> ExportedAuditLog(audits[auditOrder[i]])]
     \o [i \in 1..Len(props) |-> ExportedProperty(props[propertyOrder[i]])]]

\* The export that leaves rows that agree in the three columns in the order
\* of the table.
exportToParquet(props, audits) ==
  [format |-> "parquet", columns |-> CombinedColumns,
   rows |->
     OrderByEnvironmentKey([i \in 1..Len(audits) |-> ExportedAuditLog(audits[i])])
     \o OrderByEnvironmentKey([i \in 1..Len(props) |-> ExportedProperty(props[i])])]

\* importCombinedData / importLegacyProperties: the row an INSERT ... SELECT
\* stores in properties, and the one it stores in audit_logs.
ImportedProperty(r) ==
  [id |-> r.id, environment |-> r.environment, key |-> r.key,
   value |-> r.value, description |-> r.description,
   component |-> r.component]

ImportedAuditLog(r) ==
  [id |-> r.id, action |-> r.action, recordId |-> r.record_id,
   propertyKey |-> r.property_key, environment |-> r.environment,
   component |-> r.component, oldValue |-> r.old_value,
   newValue |-> r.new_value, oldDescription |-> r.old_description,
   newDescription |-> r.new_description,
   json |-> IF r.new_value = JsonText THEN r.json ELSE EmptyObject]

\* One INSERT ... SELECT is one statement: it stores all its rows or, when a
\* column it names is missing, an id repeats or a NOT NULL column is NULL,
\* throws and stores none.
DistinctIds(rows) ==
  \A i, j \in 1..Len(rows) : rows[i].id = rows[j].id => i = j

PropertiesSelected(blob) ==
  IF "table_type" \in blob.columns
  THEN SelectSeq(blob.rows, LAMBDA r : r.table_type = "properties")
  ELSE blob.rows

AuditLogsSelected(blob) ==
  SelectSeq(blob.rows, LAMBDA r : r.table_type = "audit_logs")

PropertiesInsertable(blob) ==
  LET rows == PropertiesSelected(blob) IN
  /\ PropertyColumns \subseteq blob.columns
  /\ DistinctIds(rows)
  /\ \A r \in Range(rows) :
       r.id # Absent /\ r.environment # Absent /\ r.key # Absent

AuditLogsInsertable(blob) ==
  LET rows == AuditLogsSelected(blob) IN
  /\ AuditColumns \subseteq blob.columns
  /\ DistinctIds(rows)
  /\ \A r \in Range(rows) :
       /\ r.action # Absent /\ r.record_id # Absent
       /\ r.property_key # Absent /\ r.environment # Absent
       /\ r.component # Absent

ImportedProperties(blob) ==
  LET rows == PropertiesSelected(blob)
  IN [i \in 1..Len(rows) |-> ImportedProperty(rows[i])]

ImportedAuditLogs(blob) ==
  LET rows == AuditLogsSelected(blob)
  IN [i \in 1..Len(rows) |-> ImportedAuditLog(rows[i])]

Outcome(threw, props, audits) ==
  [threw |-> threw, props |-> props, audits |-> audits]

\* A faulty variant: the audit table is not cleared.
importCombinedDataKeepingAudit(blob, cat, props, audits) ==
  IF "properties" \notin cat \/ "audit_logs" \notin cat
  THEN Outcome(TRUE, props, audits)
  ELSE Outcome(FALSE, ImportedProperties(blob),
               audits \o ImportedAuditLogs(blob))

\* importCombinedData, lines 238-281: two DELETEs and two INSERTs, each
\* committed on its own.
importCombinedData(blob, cat, props, audits) ==
  IF "properties" \notin cat THEN Outcome(TRUE, props, audits)
  ELSE IF "audit_logs" \notin cat THEN Outcome(TRUE, << >>, audits)
  ELSE IF ~("table_type" \in blob.columns /\ PropertiesInsertable(blob))
  THEN Outcome(TRUE, << >>, << >>)
  ELSE IF ~AuditLogsInsertable(blob)
  THEN Outcome(TRUE, ImportedProperties(blob), << >>)
  ELSE Outcome(FALSE, ImportedProperties(blob), ImportedAuditLogs(blob))

\* importLegacyProperties, lines 283-304.
importLegacyProperties(blob, cat, props, audits) ==
  IF "properties" \notin cat THEN Outcome(TRUE, props, audits)
  ELSE IF ~PropertiesInsertable(blob) THEN Outcome(TRUE, << >>, audits)
  ELSE Outcome(FALSE, ImportedProperties(blob), audits)

\* A faulty variant: every snapshot is taken for a combined one.
hasCombinedFormatAlways(blob) == TRUE

\* importFromParquet, lines 199-204.
hasCombinedFormat(blob) == "table_type" \in blob.columns

\* importFromParquet, lines 186-212: read_parquet throws on a file that is
\* not a parquet file, before any statement on the two tables.
importFromParquet(blob, connected, cat, props, audits) ==
  IF ~connected \/ blob.format # "parquet" THEN Outcome(TRUE, props, audits)
  ELSE IF hasCombinedFormat(blob)
  THEN importCombinedData(blob, cat, props, audits)
  ELSE importLegacyProperties(blob, cat, props, audits)

\* ------------------------------------------------------------------------
\* DuckDBService called on its own: the inputs.

StoredProperty == Property("e1_k1", "e1", "k1", "v1", "d1", "env")

StoredProperties ==
  <<StoredProperty, Property("e2_k1", "e2", "k1", "", Absent, "env")>>

OtherProperties == <<Property("e1_k2", "e1", "k2", "v2", "", "")>>

PropertyLists == {StoredProperties, OtherProperties}

\* A list that repeats an id.
RepeatedId == <<StoredProperty, StoredProperty>>

UpdateEntry ==
  createAuditLog("UPDATE", [StoredProperty EXCEPT !.value = "v2"],
                 StoredProperty)

BatchEntry ==
  createBatchOperationAuditLog(
    <<[StoredProperty EXCEPT !.value = "v2"]>>,
    <<Property("e1_k2", "e1", "k2", "v2", "", "env")>>,
    <<StoredProperty>>)

AuditEntries == {UpdateEntry, BatchEntry}

AuditIds == {1, 2}

\* Store contents: what insertProperties and insertAuditLogs leave.
ContentsOf(props, logs) ==
  [props |-> insertProperties(props).rows,
   audits |-> insertAuditLogs(<< >>, 1, logs)]

Contents ==
  <<ContentsOf(StoredProperties, << >>),
    ContentsOf(StoredProperties, <<UpdateEntry, BatchEntry>>),
    ContentsOf(OtherProperties, << >>),
    ContentsOf(OtherProperties, <<BatchEntry, UpdateEntry>>)>>

\* The files the import is given, in three groups.  First the exports of
\* the contents above.
ExportedFiles ==
  [i \in 1..Len(Contents) |->
     exportToParquet(Contents[i].props, Contents[i].audits)]

LegacyRow(id, environment, key, value, description, component) ==
  [id |-> id, environment |-> environment, key |-> key, value |-> value,
   description |-> description, component |-> component]

\* Exports of the property table alone, without the table_type column.
LegacyFiles ==
  << [format |-> "parquet", columns |-> PropertyColumns,
      rows |-> <<LegacyRow("e1_k1", "e1", "k1", "v3", Absent, "env"),
                 LegacyRow("e1_k3", "e1", "k3", "", "d3", "app")>>] >>

\* Files an import fails on: not a parquet file; the column action is
\* missing; an audit row without action; a legacy file that repeats an id.
FailingFiles ==
  LET file == exportToParquet(
                insertProperties(<<StoredProperty>>).rows,
                insertAuditLogs(<< >>, 1,
                  <<createAuditLog("DELETE", StoredProperty, NoProperty)>>))
  IN << [format |-> "text", columns |-> {}, rows |-> << >>],
        [file EXCEPT !.columns = @ \ {"action"}],
        [file EXCEPT !.rows[1].action = Absent],
        [format |-> "parquet", columns |-> PropertyColumns,
         rows |-> <<LegacyRow("e1_k1", "e1", "k1", "v3", Absent, "env"),
                    LegacyRow("e1_k1", "e1", "k1", "v4", Absent, "env")>>] >>

SnapshotFiles == ExportedFiles \o LegacyFiles \o FailingFiles

\* ------------------------------------------------------------------------
\* DuckDBService called on its own: the calls.  initialize awaits the
\* connection and then each CREATE TABLE, so a call made meanwhile finds
\* the service at one of these steps.  The catalog holds the tables whose
\* presence decides a call: properties, audit_logs and the temporary table
\* of an export.

NoBlob == [format |-> "none"]

StoreCall(op) ==
  [op |-> op, threw |-> FALSE, preConn |-> conn, preCatalog |-> catalog,
   preProps |-> dbProps, preAudit |-> auditLogs, blob |-> NoBlob,
   file |-> 0, result |-> << >>]

Threw(op) == [StoreCall(op) EXCEPT !.threw = TRUE]

\* initialize, lines 10-25: a new database and its connection.
InitializeConnect ==
  /\ ~conn
  /\ conn' = TRUE
  /\ catalog' = {}
  /\ dbProps' = << >>
  /\ auditLogs' = << >>
  /\ call' = StoreCall("initialize")
  /\ UNCHANGED appVars

\* createTables, lines 34-47.
InitializeProperties ==
  /\ conn
  /\ "properties" \notin catalog
  /\ catalog' = catalog \cup {"properties"}
  /\ UNCHANGED <<conn, dbProps, auditLogs, call, appVars>>

\* createTables, lines 50-68.
InitializeAuditLogs ==
  /\ conn
  /\ "properties" \in catalog
  /\ "audit_logs" \notin catalog
  /\ catalog' = catalog \cup {"audit_logs"}
  /\ UNCHANGED <<conn, dbProps, auditLogs, call, appVars>>

\* close, lines 343-352: the database is terminated, and its tables with it.
CloseCall ==
  /\ conn
  /\ conn' = FALSE
  /\ catalog' = {}
  /\ dbProps' = << >>
  /\ auditLogs' = << >>
  /\ call' = StoreCall("close")
  /\ UNCHANGED appVars

\* A faulty variant: no test of the connection.
InsertPropertiesCallUnguarded ==
  \E props \in PropertyLists \cup {RepeatedId} :
    LET ins == insertProperties(props) IN
    /\ dbProps' = ins.rows
    /\ call' = [StoreCall("insertProperties") EXCEPT !.threw = ~ins.ok]
    /\ UNCHANGED <<conn, catalog, auditLogs, appVars>>

\* insertProperties, lines 89-115.
InsertPropertiesCall ==
  \E props \in PropertyLists \cup {RepeatedId} :
    LET ins == insertProperties(props) IN
    /\ IF conn /\ "properties" \in catalog
       THEN /\ dbProps' = ins.rows
            /\ call' = [StoreCall("insertProperties") EXCEPT !.threw = ~ins.ok]
       ELSE /\ call' = Threw("insertProperties")
            /\ UNCHANGED dbProps
    /\ UNCHANGED <<conn, catalog, auditLogs, appVars>>

\* insertAuditLog, lines 355-381; id is the primary key of audit_logs.
InsertAuditLogCall ==
  \E id \in AuditIds, a \in AuditEntries :
    /\ IF /\ conn
          /\ "audit_logs" \in catalog
          /\ \A r \in Range(auditLogs) : r.id # id
       THEN /\ auditLogs' = insertAuditLog(auditLogs, id, a)
            /\ call' = StoreCall("insertAuditLog")
       ELSE /\ call' = Threw("insertAuditLog")
            /\ UNCHANGED auditLogs
    /\ UNCHANGED <<conn, catalog, dbProps, appVars>>

\* queryProperties, lines 306-341 (no filter).
QueryPropertiesCall ==
  /\ call' = IF conn /\ "properties" \in catalog
             THEN [StoreCall("queryProperties") EXCEPT
                     !.result = OrderByEnvironmentKey(dbProps)]
             ELSE Threw("queryProperties")
  /\ UNCHANGED <<conn, catalog, dbProps, auditLogs, appVars>>

\* queryAuditLogs, lines 391-417: ORDER BY timestamp DESC.
QueryAuditLogsCall ==
  /\ call' = IF conn /\ "audit_logs" \in catalog
             THEN [StoreCall("queryAuditLogs") EXCEPT
                     !.result = [i \in 1..Len(auditLogs) |->
                                   auditLogs[Len(auditLogs) + 1 - i]]]
             ELSE Threw("queryAuditLogs")
  /\ UNCHANGED <<conn, catalog, dbProps, auditLogs, appVars>>

\* exportToParquet, lines 117-184: CREATE TEMPORARY TABLE throws when the
\* table of an earlier export is there.
ExportToParquetCall ==
  /\ IF conn /\ Tables \subseteq catalog /\ "temp_combined_export" \notin catalog
     THEN /\ catalog' = catalog \cup {"temp_combined_export"}
          /\ \E propertyOrder \in Orderings(dbProps),
                auditOrder \in Orderings([i \in 1..Len(auditLogs) |->
                                            ExportedAuditLog(auditLogs[i])]) :
               call' = [StoreCall("exportToParquet") EXCEPT
                          !.blob = CombinedExport(dbProps, auditLogs,
                                                  propertyOrder, auditOrder)]
     ELSE /\ call' = Threw("exportToParquet")
          /\ UNCHANGED catalog
  /\ UNCHANGED <<conn, dbProps, auditLogs, appVars>>

ImportFromParquetCall ==
  \E file \in 1..Len(SnapshotFiles) :
    LET blob == SnapshotFiles[file]
        out == importFromParquet(blob, conn, catalog, dbProps, auditLogs)
    IN
    /\ dbProps' = out.props
    /\ auditLogs' = out.audits
    /\ call' = [StoreCall("importFromParquet") EXCEPT
                  !.threw = out.threw, !.blob = blob, !.file = file]
    /\ UNCHANGED <<conn, catalog, appVars>>

StoreNext ==
  \/ InitializeConnect
  \/ InitializeProperties
  \/ InitializeAuditLogs
  \/ CloseCall
  \/ InsertPropertiesCall
  \/ InsertAuditLogCall
  \/ QueryPropertiesCall
  \/ QueryAuditLogsCall
  \/ ExportToParquetCall
  \/ ImportFromParquetCall

StoreSpec == Unopened /\ [][StoreNext]_vars

\* ------------------------------------------------------------------------
\* Properties files.  A line is the sequence of its characters and a file's
\* content the sequence of its lines: what content.split('\n') gives and
\* what lines.join('\n') takes.

Whitespace == {" "}

RECURSIVE TrimStart(_)
TrimStart(line) ==
  IF line # << >> /\ Head(line) \in Whitespace THEN TrimStart(Tail(line))
  ELSE line

RECURSIVE TrimEnd(_)
TrimEnd(line) ==
  IF line # << >> /\ line[Len(line)] \in Whitespace
  THEN TrimEnd(SubSeq(line, 1, Len(line) - 1))
  ELSE line

\* String.prototype.trim.
Trim(line) == TrimEnd(TrimStart(line))

\* line.startsWith('#') || line.startsWith('!')
IsComment(line) == line # << >> /\ Head(line) \in {"#", "!"}

\* line.search(/[=:]/), counted from 1; 0 when there is none.
RECURSIVE SearchFrom(_, _)
SearchFrom(line, i) ==
  IF i > Len(line) THEN 0
  ELSE IF line[i] \in {"=", ":"} THEN i
  ELSE SearchFrom(line, i + 1)

Search(line) == SearchFrom(line, 1)

\* A faulty variant: only the line right above is looked at.
CommentLineIndexAbove(lines, commentLineIndex) == commentLineIndex

\* Lines 62-67: back over the empty lines.
RECURSIVE CommentLineIndex(_, _)
CommentLineIndex(lines, commentLineIndex) ==
  IF commentLineIndex >= 1 /\ Trim(lines[commentLineIndex]) = << >>
  THEN CommentLineIndex(lines, commentLineIndex - 1)
  ELSE commentLineIndex

\* Lines 75-82.
hasPropertyBetween(lines, commentLineIndex, i) ==
  \E j \in (commentLineIndex + 1)..(i - 1) :
    LET betweenLine == Trim(lines[j]) IN
    betweenLine # << >> /\ ~IsComment(betweenLine) /\ Search(betweenLine) # 0

\* Lines 61-88: the description of the property on line i.
DescriptionAbove(lines, i) ==
  LET commentLineIndex == CommentLineIndex(lines, i - 1) IN
  IF commentLineIndex < 1 THEN << >>
  ELSE LET commentLine == Trim(lines[commentLineIndex]) IN
       IF IsComment(commentLine) /\ ~hasPropertyBetween(lines, commentLineIndex, i)
       THEN Trim(Tail(commentLine))
       ELSE << >>

\* parsePropertiesFileWithDescriptions, lines 37-95.
RECURSIVE ParseFrom(_, _)
ParseFrom(lines, i) ==
  IF i > Len(lines) THEN << >>
  ELSE LET line == Trim(lines[i])
           separatorIndex == Search(line)
           key == Trim(SubSeq(line, 1, separatorIndex - 1))
           value == Trim(SubSeq(line, separatorIndex + 1, Len(line)))
       IN IF line = << >> \/ IsComment(line) \/ separatorIndex = 0 \/ key = << >>
          THEN ParseFrom(lines, i + 1)
          ELSE <<[key |-> key, value |-> value,
                  description |-> DescriptionAbove(lines, i),
                  lineNumber |-> i]>> \o ParseFrom(lines, i + 1)

parsePropertiesFileWithDescriptions(lines) == ParseFrom(lines, 1)

\* The characters of the model's files, in collation order.
Alphabet == <<" ", "!", "#", ":", "=", "d", "j", "k", "v", "w", "x">>

\* a.localeCompare(b) < 0
RECURSIVE KeyBefore(_, _)
KeyBefore(a, b) ==
  IF b = << >> THEN FALSE
  ELSE IF a = << >> THEN TRUE
  ELSE IF Head(a) # Head(b) THEN Rank(Alphabet, Head(a)) < Rank(Alphabet, Head(b))
  ELSE KeyBefore(Tail(a), Tail(b))

\* An optional number field of a property: undefined, or the number n.
Undefined == [defined |-> FALSE, n |-> 0]

Number(n) == [defined |-> TRUE, n |-> n]

\* x || 0
OrZero(x) == IF x.defined THEN x.n ELSE 0

\* The comparator of generatePropertiesFileContent, lines 566-586, negative.
OrderedBefore(a, b) ==
  IF a.lineOrder # Undefined /\ b.lineOrder # Undefined
  THEN IF a.fileOrder # b.fileOrder
       THEN OrZero(a.fileOrder) < OrZero(b.fileOrder)
       ELSE a.lineOrder.n < b.lineOrder.n
  ELSE IF a.lineOrder # Undefined THEN TRUE
  ELSE IF b.lineOrder # Undefined THEN FALSE
  ELSE KeyBefore(a.key, b.key)

\* Array.prototype.sort: stable.
InsertOrdered(sorted, p) ==
  LET at == FindIndex(sorted, LAMBDA q : OrderedBefore(p, q)) IN
  IF at = 0 THEN Append(sorted, p)
  ELSE SubSeq(sorted, 1, at - 1) \o <<p>> \o SubSeq(sorted, at, Len(sorted))

RECURSIVE SortedProperties(_, _, _)
SortedProperties(sorted, props, i) ==
  IF i > Len(props) THEN sorted
  ELSE SortedProperties(InsertOrdered(sorted, props[i]), props, i + 1)

\* Lines 561-563: '# Generated on ' and the time (T), '# Environment
\* Properties', and an empty line.
Header ==
  << <<"#", " ", "G", "e", "n", "e", "r", "a", "t", "e", "d", " ", "o", "n",
       " ", "T">>,
     <<"#", " ", "E", "n", "v", "i", "r", "o", "n", "m", "e", "n", "t", " ",
       "P", "r", "o", "p", "e", "r", "t", "i", "e", "s">>,
     << >> >>

\* Lines 591-608.
RECURSIVE PropertyLines(_, _, _)
PropertyLines(sortedProperties, i, lastFileOrder) ==
  IF i > Len(sortedProperties) THEN << >>
  ELSE LET property == sortedProperties[i]
           switch == /\ property.fileOrder # Undefined
                     /\ property.fileOrder.n # lastFileOrder
       IN (IF switch /\ lastFileOrder # -1 THEN << << >> >> ELSE << >>)
          \o (IF property.description # << >>
              THEN << <<"#", " ">> \o property.description >> ELSE << >>)
          \o << property.key \o <<"=">> \o property.value, << >> >>
          \o PropertyLines(sortedProperties, i + 1,
                           IF switch THEN property.fileOrder.n
                           ELSE lastFileOrder)

\* DeploymentService.generatePropertiesFileContent, lines 557-611.
generatePropertiesFileContent(props) ==
  Header \o PropertyLines(SortedProperties(<< >>, props, 1), 1, -1)

\* A parsed property handed on as it is: it has no lineOrder or fileOrder.
Parsed(p) ==
  [key |-> p.key, value |-> p.value, description |-> p.description,
   lineOrder |-> Undefined, fileOrder |-> Undefined]

\* Inputs: the lines of a file are blank, comments, property lines, a
\* property line without key, and a line without separator.
FileLines ==
  { << >>, <<" ">>,
    <<"#", " ", "d">>, <<"!", "d">>, <<"#">>,
    <<"k", "=", "v">>, <<" ", "k", " ", "=", " ", "v", " ">>,
    <<"k", ":", "v", "=", "w">>, <<"j", "=">>,
    <<"=", "v">>, <<"x">> }

FileContents == UNION { [1..n -> FileLines] : n \in 0..MaxLines }

TextInit ==
  /\ Idle
  /\ \E content \in FileContents : call = [op |-> "content", content |-> content]

ParseCall ==
  /\ call.op = "content"
  /\ call' = [op |-> "parse", content |-> call.content,
              result |-> parsePropertiesFileWithDescriptions(call.content)]
  /\ UNCHANGED <<storeVars, appVars, conn, catalog>>

\* The parsed properties written out and the output parsed again.
GenerateCall ==
  /\ call.op = "parse"
  /\ LET generated == generatePropertiesFileContent(
                        [i \in 1..Len(call.result) |-> Parsed(call.result[i])])
     IN call' = [op |-> "generate", content |-> call.content,
                 result |-> call.result, generated |-> generated,
                 again |-> parsePropertiesFileWithDescriptions(generated)]
  /\ UNCHANGED <<storeVars, appVars, conn, catalog>>

TextNext == ParseCall \/ GenerateCall

TextSpec == TextInit /\ [][TextNext]_vars

\* ------------------------------------------------------------------------
\* The order fields of a property through the store.

\* A column of the properties table that holds a number or NULL.
Null == [defined |-> FALSE, n |-> 0, null |-> TRUE]

\* insertProperties, lines 107-109: prop.environmentOrder || null.
NumberOrNull(x) == IF x.defined /\ x.n # 0 THEN x ELSE Null

\* queryProperties, lines 337-339: row.environment_order as number ||
\* undefined.
OrUndefined(column) ==
  IF column = Null THEN Undefined
  ELSE IF column.n # 0 THEN column ELSE Undefined

\* insertProperties, lines 99-112: the row of one property.
OrderedRow(prop) ==
  [key |-> prop.key, value |-> prop.value, description |-> prop.description,
   environment_order |-> NumberOrNull(prop.environmentOrder),
   file_order |-> NumberOrNull(prop.fileOrder),
   line_order |-> NumberOrNull(prop.lineOrder)]

\* queryProperties, lines 329-340: the property of one row.
OrderedProperty(row) ==
  [key |-> row.key, value |-> row.value, description |-> row.description,
   environmentOrder |-> OrUndefined(row.environment_order),
   fileOrder |-> OrUndefined(row.file_order),
   lineOrder |-> OrUndefined(row.line_order)]

\* ORDER BY environment, key, for the rows of one environment.
RECURSIVE OrderByKey(_, _, _)
OrderByKey(sorted, rows, i) ==
  IF i > Len(rows) THEN sorted
  ELSE LET at == FindIndex(sorted, LAMBDA q : KeyBefore(rows[i].key, q.key))
       IN OrderByKey(
            IF at = 0 THEN Append(sorted, rows[i])
            ELSE SubSeq(sorted, 1, at - 1) \o <<rows[i]>>
                   \o SubSeq(sorted, at, Len(sorted)),
            rows, i + 1)

\* Inputs: a property has the three numbers convertToProperties gives it
\* (lines 406-422), or none when it was added in the grid.
OrderNumbers == {0, 1}

Orders ==
  { [environmentOrder |-> Undefined, fileOrder |-> Undefined,
     lineOrder |-> Undefined] }
  \cup { [environmentOrder |-> Number(e), fileOrder |-> Number(f),
          lineOrder |-> Number(l)] :
         e \in OrderNumbers, f \in OrderNumbers, l \in OrderNumbers }

PropertyWithOrder(key, order) ==
  [key |-> key, value |-> <<"v">>, description |-> << >>,
   environmentOrder |-> order.environmentOrder,
   fileOrder |-> order.fileOrder, lineOrder |-> order.lineOrder]

OrderedKeys == {<<"j">>, <<"k">>}

OrderedLists ==
  { <<PropertyWithOrder(key, order)>> : key \in OrderedKeys, order \in Orders }
  \cup { <<PropertyWithOrder(keys[1], o1), PropertyWithOrder(keys[2], o2)>> :
         keys \in {<< <<"j">>, <<"k">> >>, << <<"k">>, <<"j">> >>},
         o1 \in Orders, o2 \in Orders }

OrderInit ==
  /\ Idle
  /\ \E list \in OrderedLists : call = [op |-> "list", written |-> list]

InsertOrderedCall ==
  /\ call.op = "list"
  /\ call' = [op |-> "stored", written |-> call.written,
              rows |-> [i \in 1..Len(call.written) |->
                          OrderedRow(call.written[i])]]
  /\ UNCHANGED <<storeVars, appVars, conn, catalog>>

QueryOrderedCall ==
  /\ call.op = "stored"
  /\ LET rows == OrderByKey(<< >>, call.rows, 1)
         read == [i \in 1..Len(rows) |-> OrderedProperty(rows[i])]
     IN call' = [op |-> "read", written |-> call.written, read |-> read,
                 before |-> generatePropertiesFileContent(call.written),
                 after |-> generatePropertiesFileContent(read)]
  /\ UNCHANGED <<storeVars, appVars, conn, catalog>>

OrderNext == InsertOrderedCall \/ QueryOrderedCall

OrderSpec == OrderInit /\ [][OrderNext]_vars

\* ------------------------------------------------------------------------
\* PropertiesFileService.createMissingComponentProperties.

\* new Set(array): the values of a list in the order of their first
\* occurrence.
RECURSIVE SetOf(_, _)
SetOf(list, i) ==
  IF i > Len(list) THEN << >>
  ELSE IF \E j \in 1..(i - 1) : list[j] = list[i]
  THEN SetOf(list, i + 1)
  ELSE <<list[i]>> \o SetOf(list, i + 1)

\* The optional parameter environments: a list, or not given.
Given(list) == [given |-> TRUE, list |-> list]
NotGiven == [given |-> FALSE, list |-> << >>]

\* Line 183: the given environments, or those of the existing properties.
\* An empty list is given, not missing.
targetEnvironments(existingProperties, given) ==
  IF given.given THEN given.list
  ELSE SetOf([i \in 1..Len(existingProperties) |->
                existingProperties[i].environment], 1)

\* A faulty variant: a property of any component counts as present.
MissingPropertyOfAnyComponent(existingProperties, key, component, env) ==
  LET exists == \E p \in Range(existingProperties) :
                  p.key = key /\ p.environment = env
      similarProp ==
        Find(existingProperties,
             LAMBDA p : p.key = key /\ p.component = component)
  IN IF exists THEN << >>
     ELSE <<Property(EnvKey(env, key), env, key, "",
                     IF similarProp = NoProperty THEN ""
                     ELSE OrElse(similarProp.description, ""),
                     component)>>

\* Lines 189-211: the body of the innermost loop.
MissingProperty(existingProperties, key, component, env) ==
  LET exists == \E p \in Range(existingProperties) :
                  p.key = key /\ p.environment = env /\ p.component = component
      similarProp ==
        Find(existingProperties,
             LAMBDA p : p.key = key /\ p.component = component)
  IN IF exists THEN << >>
     ELSE <<Property(EnvKey(env, key), env, key, "",
                     IF similarProp = NoProperty THEN ""
                     ELSE OrElse(similarProp.description, ""),
                     component)>>

RECURSIVE ForEachEnvironment(_, _, _, _, _)
ForEachEnvironment(existingProperties, key, component, envs, i) ==
  IF i > Len(envs) THEN << >>
  ELSE MissingProperty(existingProperties, key, component, envs[i])
       \o ForEachEnvironment(existingProperties, key, component, envs, i + 1)

RECURSIVE ForEachComponent(_, _, _, _, _)
ForEachComponent(existingProperties, key, components, envs, i) ==
  IF i > Len(components) THEN << >>
  ELSE ForEachEnvironment(existingProperties, key, components[i], envs, 1)
       \o ForEachComponent(existingProperties, key, components, envs, i + 1)

RECURSIVE ForEachKey(_, _, _, _, _)
ForEachKey(existingProperties, keys, components, envs, i) ==
  IF i > Len(keys) THEN << >>
  ELSE ForEachComponent(existingProperties, keys[i], components, envs, 1)
       \o ForEachKey(existingProperties, keys, components, envs, i + 1)

uniqueKeys(existingProperties) ==
  SetOf([i \in 1..Len(existingProperties) |-> existingProperties[i].key], 1)

uniqueComponents(existingProperties) ==
  SetOf([i \in 1..Len(existingProperties) |->
           existingProperties[i].component], 1)

createMissingComponentProperties(existingProperties, given) ==
  ForEachKey(existingProperties,
             uniqueKeys(existingProperties),
             uniqueComponents(existingProperties),
             targetEnvironments(existingProperties, given), 1)

\* The calls.  The existing properties are a list of at most MaxExisting
\* properties of two keys, two components and two environments, with a
\* description, an empty one or none; the environments are not given, or are
\* a list of environments, each once, "e3" being one that no property has.
MaxExisting == 2

ExistingProperty ==
  {Property(EnvKey(env, key), env, key, "v1", description, component) :
     env \in Envs, key \in {"k1", "k2"},
     description \in {"d1", "", Absent}, component \in {"env", "app"}}

ExistingProperties ==
  UNION {[1..n -> ExistingProperty] : n \in 0..MaxExisting}

EnvironmentLists ==
  {<< >>, <<"e1">>, <<"e2">>, <<"e3">>, <<"e1", "e2">>, <<"e2", "e1">>,
   <<"e1", "e3">>}

MissingInit ==
  /\ Idle
  /\ \E existingProperties \in ExistingProperties,
        given \in {Given(list) : list \in EnvironmentLists} \cup {NotGiven} :
       call = [op |-> "existing", existingProperties |-> existingProperties,
               environments |-> given]

CreateMissingCall ==
  /\ call.op = "existing"
  /\ call' = [op |-> "createMissing",
              existingProperties |-> call.existingProperties,
              environments |-> call.environments,
              result |-> createMissingComponentProperties(
                           call.existingProperties, call.environments)]
  /\ UNCHANGED <<storeVars, appVars, conn, catalog>>

MissingSpec == MissingInit /\ [][CreateMissingCall]_vars

\* ------------------------------------------------------------------------
\* The handlers statement by statement.  Every handler awaits each statement
\* it sends to the store, so the statements of handler invocations that run
\* at the same time interleave; an invocation works on the property list
\* of the render that started it.

\* A faulty variant: every handler rewrites the table first.
ProgramRewriteFirst(handler) == <<"rewrite", "audit", "set">>

\* The awaited calls of a handler in program order.  handleSaveProperty
\* (App.tsx lines 220-223), handleDeleteProperty (lines 253-256) and
\* handleBatchSave (lines 337-350): insertProperties, the audit append,
\* setProperties.  AuditPage.handleRestore (lines 181-184, 216-219, 247-250)
\* appends first and then calls App.handleRestore (lines 465-466).
Program(handler) ==
  IF handler = "restore" THEN <<"audit", "rewrite", "set">>
  ELSE <<"rewrite", "audit", "set">>

\* An invocation: the property list of the render that started it, the
\* changes it was called with, the list it will write, the audit entries it
\* will append with their ids, and how far it is: statement i of
\* insertProperties (0 is the DELETE, n the INSERT of the n-th property),
\* entry j of the append.
Invocation(handler, changes, updatedProperties, logs, removed) ==
  [handler |-> handler, status |-> "running", k |-> 1,
   before |-> properties, changes |-> changes,
   updatedProperties |-> updatedProperties, i |-> 0,
   logs |-> logs, j |-> 1,
   rewritten |-> FALSE, audited |-> FALSE, removed |-> removed]

Phase(h) == Program(h.handler)[h.k]

\* The awaited call returns when its last statement has.
Returned(h) ==
  IF Phase(h) = "rewrite" /\ h.i > Len(h.updatedProperties)
  THEN [h EXCEPT !.k = @ + 1, !.rewritten = TRUE]
  ELSE IF Phase(h) = "audit" /\ h.j > Len(h.logs)
  THEN [h EXCEPT !.k = @ + 1, !.audited = TRUE]
  ELSE h

Quiet == \A n \in 1..Len(running) : running[n].status # "running"

LoggedAt(time, made) == [id |-> time, entry |-> made.result]

\* PropertyGrid.tsx, lines 655-660, and App.handleDeleteProperty, lines
\* 241-251: onDelete is called for every property of the row's key, one
\* call after the other without waiting.
DeleteInvocation(props, id, time) ==
  LET propertyToDelete == Find(props, LAMBDA p : p.id = id)
  IN Invocation("delete", << >>, Filter(props, LAMBDA p : p.id # id),
                <<LoggedAt(time, Made("DELETE", propertyToDelete, NoProperty))>>,
                <<propertyToDelete>>)

GridDelete ==
  \E key \in {p.key : p \in Range(filteredProperties)} :
    LET propertiesToDelete ==
          Filter(filteredProperties, LAMBDA p : p.key = key)
    IN /\ Quiet
       /\ clock + Len(propertiesToDelete) <= MaxClock
       /\ clock' = clock + Len(propertiesToDelete)
       /\ running' = [n \in 1..Len(propertiesToDelete) |->
                        DeleteInvocation(properties, propertiesToDelete[n].id,
                                         clock + n)]
       /\ UNCHANGED <<storeVars, selectedComponent, gridVars, last,
                      serviceVars>>

\* App.handleSaveProperty with a property being edited, lines 203-223.
EditProperty ==
  \E editingProperty \in Range(properties), value \in {"v2"} :
    LET propertyToUpdate == [editingProperty EXCEPT !.value = value]
        oldProperty ==
          Find(properties, LAMBDA p : p.id = propertyToUpdate.id)
        updatedProperties ==
          [n \in 1..Len(properties) |->
             IF properties[n].id = propertyToUpdate.id
             THEN propertyToUpdate ELSE properties[n]]
    IN /\ Quiet
       /\ editingProperty.value # value
       /\ clock < MaxClock
       /\ clock' = clock + 1
       /\ running' =
            <<Invocation("edit", <<propertyToUpdate>>, updatedProperties,
                         IF oldProperty # NoProperty
                         THEN <<LoggedAt(clock + 1,
                                  Made("UPDATE", propertyToUpdate, oldProperty))>>
                         ELSE << >>,
                         << >>)>>
       /\ UNCHANGED <<storeVars, selectedComponent, gridVars, last,
                      serviceVars>>

\* App.handleBatchSave, lines 262-347, called with one change, one deletion
\* or both.
BatchSaves ==
  LET updates == {<<[p EXCEPT !.value = "v2"]>> :
                    p \in {q \in Range(properties) : q.value # "v2"}}
      removals == {<<p>> : p \in Range(properties)}
  IN {[changes |-> c, deletions |-> << >>] : c \in updates}
     \cup {[changes |-> << >>, deletions |-> d] : d \in removals}
     \cup {[changes |-> c, deletions |-> d] :
             c \in updates, d \in {e \in removals : e[1].id = properties[1].id}}

BatchSave ==
  \E save \in BatchSaves :
    LET changes == save.changes
        deletions == save.deletions
        log == IF IsSingleOperation(changes, deletions)
               THEN SingleAuditLog(properties, changes, deletions)
               ELSE [result |-> createBatchOperationAuditLog(
                                  changes, deletions, properties)]
    IN /\ Quiet
       /\ clock < MaxClock
       /\ clock' = clock + 1
       /\ running' =
            <<Invocation("save", changes,
                         UpdatedProperties(properties, changes, deletions),
                         <<LoggedAt(clock + 1, log)>>, deletions)>>
       /\ UNCHANGED <<storeVars, selectedComponent, gridVars, last,
                      serviceVars>>

\* AuditPage.handleRestore, lines 130-255, and App.handleRestore, lines
\* 441-466, which the audit page calls when its append has returned.
RestoreEntry ==
  \E n \in 1..Len(auditLogs) :
    LET selectedLog == auditLogs[n]
        r == Resolve(selectedLog)
    IN /\ Quiet
       /\ canRestore(selectedLog)
       /\ ~(selectedLog.action = "BATCH" /\ ParseThrows(selectedLog))
       /\ clock < MaxClock
       /\ clock' = clock + 1
       /\ running' =
            <<Invocation("restore", r.restored,
                         RestoredProperties(properties, r.restored, r.deleted),
                         <<LoggedAt(clock + 1, r.audit)>>, r.deleted)>>
       /\ UNCHANGED <<storeVars, selectedComponent, gridVars, last,
                      serviceVars>>

\* The next statement of an invocation runs.  An INSERT of an id that is in
\* the table throws; the handler catches it and stops.
Statement ==
  \E n \in 1..Len(running) :
    LET h == running[n]
        ins == InsertRows(dbProps, <<h.updatedProperties[h.i]>>, 1)
    IN /\ h.status = "running"
       /\ IF Phase(h) = "rewrite" /\ h.i = 0
          THEN /\ dbProps' = << >>
               /\ running' = [running EXCEPT ![n] = Returned([h EXCEPT !.i = 1])]
               /\ UNCHANGED <<properties, auditLogs>>
          ELSE IF Phase(h) = "rewrite"
          THEN /\ dbProps' = ins.rows
               /\ running' =
                    [running EXCEPT ![n] =
                       IF ins.ok THEN Returned([h EXCEPT !.i = @ + 1])
                       ELSE [h EXCEPT !.status = "failed"]]
               /\ UNCHANGED <<properties, auditLogs>>
          ELSE IF Phase(h) = "audit"
          THEN /\ auditLogs' = IF h.j > Len(h.logs) THEN auditLogs
                               ELSE insertAuditLog(auditLogs, h.logs[h.j].id,
                                                   h.logs[h.j].entry)
               /\ running' = [running EXCEPT ![n] = Returned([h EXCEPT !.j = @ + 1])]
               /\ UNCHANGED <<properties, dbProps>>
          ELSE /\ properties' = h.updatedProperties
               /\ running' = [running EXCEPT ![n].status = "done"]
               /\ UNCHANGED <<dbProps, auditLogs>>
       /\ UNCHANGED <<clock, selectedComponent, gridVars, last, serviceVars>>

\* A statement sent to the store is rejected: the await throws, the
\* handler's catch reports the error and the handler ends.
StatementThrows ==
  \E n \in 1..Len(running) :
    /\ running[n].status = "running"
    /\ Phase(running[n]) \in {"rewrite", "audit"}
    /\ running' = [running EXCEPT ![n].status = "failed"]
    /\ UNCHANGED <<storeVars, clock, selectedComponent, gridVars, last,
                   serviceVars>>

\* The property list of an imported snapshot that was not written by this
\* application: key k1 of environment e1 in two components, under ids of
\* their own.
ForeignProperties ==
  <<Property("1", "e1", "k1", "v1", "d1", "env"),
    Property("2", "e1", "k1", "v1", "d1", "app"),
    Property("3", "e2", "k1", "v1", "d1", "env")>>

StartLists ==
  {convertToProperties(folder) : folder \in Folders}
  \cup {ForeignProperties}

\* The application with a folder loaded or a snapshot imported.
HandlerInit ==
  \E start \in StartLists :
    /\ properties = start
    /\ dbProps = insertProperties(properties).rows
    /\ auditLogs = << >>
    /\ clock = 0
    /\ selectedComponent = "all"
    /\ pendingProperties = << >>
    /\ deletingProperties = << >>
    /\ editedRows = << >>
    /\ last = Last("folder")
    /\ conn = TRUE
    /\ catalog = Tables
    /\ call = NoCall
    /\ running = << >>

HandlerNext ==
  \/ GridDelete
  \/ EditProperty
  \/ BatchSave
  \/ RestoreEntry
  \/ Statement
  \/ StatementThrows

HandlerSpec == HandlerInit /\ [][HandlerNext]_vars

\* ------------------------------------------------------------------------
\* FolderInitializationService.scanFolderStructure.  A folder is what its
\* handle gives: whether its entries can be listed and, for each name, the
\* entry of that name if there is one.  A directory says whether its own
\* entries can be listed and what each file name in it is: no entry, a file
\* that can be read, a file whose read fails, or a directory.

\* The names in the order entries.sort(localeCompare) gives them.
DirectoryNames == <<"e1", "e2">>
FileNames == <<"a.properties", "b.properties", "c.txt">>

endsWithProperties(fileName) == fileName \in {"a.properties", "b.properties"}

ScannedFile(environment, fileName, fileOrder) ==
  [name |-> fileName, path |-> environment \o "/" \o fileName,
   fileOrder |-> fileOrder]

\* A faulty variant: a file whose read fails uses up its fileOrder.
RECURSIVE ScanFilesCountingFailures(_, _, _, _)
ScanFilesCountingFailures(environment, entries, n, fileOrder) ==
  IF n > Len(FileNames) THEN << >>
  ELSE LET fileName == FileNames[n]
           rest(order) ==
             ScanFilesCountingFailures(environment, entries, n + 1, order)
       IN IF entries[fileName] \in {"readable", "unreadable"}
             /\ endsWithProperties(fileName)
          THEN IF entries[fileName] = "readable"
               THEN <<ScannedFile(environment, fileName, fileOrder)>>
                    \o rest(fileOrder + 1)
               ELSE rest(fileOrder + 1)
          ELSE rest(fileOrder)

\* Lines 330-347: the files of one environment folder.
RECURSIVE ScanFiles(_, _, _, _)
ScanFiles(environment, entries, n, fileOrder) ==
  IF n > Len(FileNames) THEN << >>
  ELSE LET fileName == FileNames[n]
       IN IF entries[fileName] \in {"readable", "unreadable"}
             /\ endsWithProperties(fileName)
          THEN IF entries[fileName] = "readable"
               THEN <<ScannedFile(environment, fileName, fileOrder)>>
                    \o ScanFiles(environment, entries, n + 1, fileOrder + 1)
               ELSE ScanFiles(environment, entries, n + 1, fileOrder)
          ELSE ScanFiles(environment, entries, n + 1, fileOrder)

\* Lines 313-365: the entries of the selected folder in turn.
RECURSIVE ScanDirectories(_, _, _)
ScanDirectories(folder, n, environmentOrder) ==
  IF n > Len(DirectoryNames) THEN << >>
  ELSE LET environment == DirectoryNames[n]
           handle == folder.entries[environment]
           files == ScanFiles(environment, handle.entries, 1, 0)
       IN IF handle.kind = "directory" /\ handle.listed /\ files # << >>
          THEN <<[environment |-> environment,
                  environmentOrder |-> environmentOrder, files |-> files]>>
               \o ScanDirectories(folder, n + 1, environmentOrder + 1)
          ELSE ScanDirectories(folder, n + 1, environmentOrder)

\* Lines 291-379: the listing of the selected folder failing is thrown on.
scanFolderStructure(folder) ==
  IF folder.listed
  THEN [threw |-> FALSE, structures |-> ScanDirectories(folder, 1, 0)]
  ELSE [threw |-> TRUE, structures |-> << >>]

FileEntries ==
  {entries \in [Range(FileNames) ->
                  {"none", "readable", "unreadable", "directory"}] :
     /\ entries["b.properties"] # "directory"
     /\ entries["c.txt"] \in {"none", "readable"}}

NoEntries == [fileName \in Range(FileNames) |-> "none"]

Handles ==
  {[kind |-> "none", listed |-> TRUE, entries |-> NoEntries],
   [kind |-> "file", listed |-> TRUE, entries |-> NoEntries]}
  \cup {[kind |-> "directory", listed |-> TRUE, entries |-> entries] :
          entries \in FileEntries}
  \cup {[kind |-> "directory", listed |-> FALSE, entries |-> entries] :
          entries \in {e \in FileEntries : e["c.txt"] = "none"}}

SelectedFolders ==
  {[listed |-> listed, entries |-> entries] :
     listed \in BOOLEAN, entries \in [Range(DirectoryNames) -> Handles]}

ScanInit ==
  /\ Idle
  /\ \E folder \in SelectedFolders : call = [op |-> "folder", folder |-> folder]

ScanCall ==
  /\ call.op = "folder"
  /\ call' = [op |-> "scan", folder |-> call.folder,
              result |-> scanFolderStructure(call.folder)]
  /\ UNCHANGED <<storeVars, appVars, conn, catalog>>

ScanSpec == ScanInit /\ [][ScanCall]_vars

\* ------------------------------------------------------------------------
\* exportToParquet on two stores, each a service of its own with its tables
\* filled.  The stores hold up to three audit entries, two of them of one
\* property; the second store holds the rows of the first with the two in
\* the other order in the table, as an import of an export leaves them.

DeleteEntry == createAuditLog("DELETE", StoredProperty, NoProperty)

Swapped(rows) == <<rows[2], rows[1]>>

ExportStores ==
  <<ContentsOf(StoredProperties, <<UpdateEntry, DeleteEntry>>),
    [props |-> insertProperties(StoredProperties).rows,
     audits |-> Swapped(insertAuditLogs(<< >>, 1, <<UpdateEntry, DeleteEntry>>))],
    ContentsOf(StoredProperties, <<UpdateEntry, BatchEntry>>),
    ContentsOf(StoredProperties, <<UpdateEntry, DeleteEntry, BatchEntry>>),
    ContentsOf(Swapped(StoredProperties), <<UpdateEntry>>),
    ContentsOf(OtherProperties, << >>)>>

ExportInit ==
  /\ Idle
  /\ \E first \in 1..Len(ExportStores), second \in 1..Len(ExportStores) :
       call = [op |-> "stores", stores |-> <<first, second>>,
               blobs |-> <<NoBlob, NoBlob>>]

ExportCall ==
  \E n \in 1..2 :
    LET store == ExportStores[call.stores[n]] IN
    /\ call.blobs[n] = NoBlob
    /\ \E propertyOrder \in Orderings(store.props),
          auditOrder \in Orderings([i \in 1..Len(store.audits) |->
                                      ExportedAuditLog(store.audits[i])]) :
         call' = [op |-> "exportToParquet", stores |-> call.stores,
                  blobs |-> [call.blobs EXCEPT ![n] =
                               CombinedExport(store.props, store.audits,
                                              propertyOrder, auditOrder)]]
    /\ UNCHANGED <<storeVars, appVars, conn, catalog>>

ExportSpec == ExportInit /\ [][ExportCall]_vars

\* ------------------------------------------------------------------------
\* The audit page.

\* AuditPage.tsx line 63.
LOGS_PER_PAGE == 50

MaxLog == 51   \* entries of the audit log

ActionOrder == <<"CREATE", "UPDATE", "DELETE", "RESTORE", "BATCH">>

\* The audit log with n entries, entry i written at time i.
LogOfSize(n, shift) ==
  [i \in 1..n |->
     [id |-> i, timestamp |-> i,
      action |-> ActionOrder[((i + shift) % Len(ActionOrder)) + 1]]]

\* ORDER BY timestamp DESC LIMIT limit OFFSET offset, lines 391-417.
queryAuditLogsPage(log, limit, offset) ==
  LET count == IF Len(log) - offset < 0 THEN 0
               ELSE IF Len(log) - offset < limit THEN Len(log) - offset
               ELSE limit
  IN [i \in 1..count |-> log[Len(log) - offset - i + 1]]

\* Math.ceil(n / d)
Ceil(n, d) == (n + d - 1) \div d

\* loadAuditLogs with no search term, lines 70-105: the entries shown and
\* the number of pages.
loadAuditLogs(log, page) ==
  LET offset == (page - 1) * LOGS_PER_PAGE
      logs == queryAuditLogsPage(log, LOGS_PER_PAGE, offset)
  IN [auditLogs |-> logs, totalPages |-> Ceil(Len(logs), LOGS_PER_PAGE)]

\* Lines 52-53: the page opens on page 1 of 1.
PageInit ==
  /\ Idle
  /\ \E n \in 0..MaxLog, shift \in 0..(Len(ActionOrder) - 1) :
       call = [op |-> "audit page", log |-> LogOfSize(n, shift), page |-> 1,
               totalPages |-> 1, auditLogs |-> << >>]

\* The effect of lines 65-68 when the page is mounted.
MountAuditPage ==
  /\ call.op = "audit page"
  /\ LET loaded == loadAuditLogs(call.log, call.page)
     IN call' = [call EXCEPT !.op = "loaded",
                             !.auditLogs = loaded.auditLogs,
                             !.totalPages = loaded.totalPages]
  /\ UNCHANGED <<storeVars, appVars, conn, catalog>>

\* Lines 436-445: the control offers the pages 1..totalPages; the chosen
\* page is set and the effect loads it.
SetPage ==
  /\ call.op = "loaded"
  /\ \E newPage \in 1..call.totalPages :
       LET loaded == loadAuditLogs(call.log, newPage)
       IN call' = [call EXCEPT !.page = newPage,
                               !.auditLogs = loaded.auditLogs,
                               !.totalPages = loaded.totalPages]
  /\ UNCHANGED <<storeVars, appVars, conn, catalog>>

PageNext == MountAuditPage \/ SetPage

PageSpec == PageInit /\ [][PageNext]_vars

\* ------------------------------------------------------------------------
\* File names and components.  A file name is the sequence of its parts,
\* 'env.properties' being <<"env", ".properties">>.

Extension == ".properties"

\* filename.replace('.properties', ''): the first occurrence goes.
RemoveExtension(filename) ==
  LET at == FindIndex(filename, LAMBDA part : part = Extension)
  IN IF at = 0 THEN filename
     ELSE SubSeq(filename, 1, at - 1) \o SubSeq(filename, at + 1, Len(filename))

\* Lines 153-164: names and their components.
componentMap ==
  << <<"env", "env">>, <<"app-properties", "app">>, <<"mail", "mail">>,
     <<"mylist-app", "mylist-app">>, <<"mylist-env", "mylist-env">>,
     <<"url", "url">>, <<"f4batch", "f4batch">>, <<"fax-properties", "fax">>,
     <<"gsearch", "gsearch">>, <<"monitoring-env", "monitoring-env">> >>

\* PropertiesFileService.getComponentFromFilename, lines 148-167.
getComponentFromFilename(filename) ==
  LET name == RemoveExtension(filename)
      at == IF Len(name) # 1 THEN 0
            ELSE FindIndex(componentMap, LAMBDA pair : pair[1] = name[1])
  IN IF at = 0 THEN "env" ELSE componentMap[at][2]

\* Lines 618-629: components and their file names.
fileMap ==
  << <<"env", <<"env", Extension>> >>,
     <<"app", <<"app-properties", Extension>> >>,
     <<"mail", <<"mail", Extension>> >>,
     <<"mylist-app", <<"mylist-app", Extension>> >>,
     <<"mylist-env", <<"mylist-env", Extension>> >>,
     <<"url", <<"url", Extension>> >>,
     <<"f4batch", <<"f4batch", Extension>> >>,
     <<"fax", <<"fax-properties", Extension>> >>,
     <<"gsearch", <<"gsearch", Extension>> >>,
     <<"monitoring-env", <<"monitoring-env", Extension>> >> >>

\* DeploymentService.getComponentFileName, lines 617-632.
getComponentFileName(component) ==
  LET at == FindIndex(fileMap, LAMBDA pair : pair[1] = component)
  IN IF at = 0 THEN <<component, Extension>> ELSE fileMap[at][2]

\* Inputs: the file names the code names, and some it does not.
PropertiesFileNames ==
  { <<componentMap[i][1], Extension>> : i \in 1..Len(componentMap) }
  \cup { <<"db", Extension>>, <<"app", Extension>>, <<"fax", Extension>>,
         <<"env", Extension, Extension>> }

\* Two files of one environment directory.
NameInit ==
  /\ Idle
  /\ \E f \in PropertiesFileNames, g \in PropertiesFileNames :
       /\ f # g
       /\ call = [op |-> "files", files |-> <<f, g>>]

\* convertToProperties line 401 on each file, and deployment's file name
\* for the component (line 518).
ComponentCall ==
  /\ call.op = "files"
  /\ LET components == [i \in 1..2 |-> getComponentFromFilename(call.files[i])]
     IN call' = [op |-> "components", files |-> call.files,
                 components |-> components,
                 written |-> [i \in 1..2 |-> getComponentFileName(components[i])]]
  /\ UNCHANGED <<storeVars, appVars, conn, catalog>>

NameSpec == NameInit /\ [][ComponentCall]_vars

\* ------------------------------------------------------------------------
\* Properties.  They read the store as a re-fetch would: the rows of the
\* properties table and of the audit table.

RowById(rows, id) == Find(rows, LAMBDA r : r.id = id)

\* The last handler was a restore that went through, of the entry that the
\* save or delete just before it wrote, and that entry has one of `actions`.
RestoredRightAfter(actions) ==
  /\ last.op = "restore"
  /\ last.ok
  /\ last.rightAfter
  /\ last.entry.action \in actions

\* C1: restoring a CREATE, UPDATE or DELETE entry right after the mutation
\* that wrote it puts the property back as it was before the mutation: after
\* an UPDATE or DELETE entry is restored, a property that was in the store
\* before the mutation is in the store with the value and description it had
\* then; after a CREATE entry is restored, no property with the entry's key
\* and environment is in the store.
C1_RestoreSingleInverts ==
  RestoredRightAfter({"CREATE", "UPDATE", "DELETE"}) =>
    LET e == last.entry
        before == RowById(last.mutPre, e.recordId)
        after == RowById(dbProps, e.recordId)
    IN IF e.action = "CREATE"
       THEN \A r \in Range(dbProps) :
              ~(r.key = e.propertyKey /\ r.environment = e.environment)
       ELSE before # NoProperty =>
              /\ after # NoProperty
              /\ after.value = before.value
              /\ after.description = before.description

\* C2: restoring a BATCH entry right after the save that wrote it returns the
\* store to the set of properties it held before the save.
C2_RestoreBatchInverts ==
  RestoredRightAfter({"BATCH"}) => Range(dbProps) = Range(last.mutPre)

\* C3: the audit log is append-only under single edits, single deletes,
\* batch saves and restores: every step other than an import of a snapshot
\* keeps the entries that were in the log, in place and unchanged.
C3_AppendOnly ==
  [][last'.op = "import" \/ IsPrefix(auditLogs, auditLogs')]_vars

C3_Witness ==
  /\ last.op = "restore"
  /\ last.ok
  /\ last.rightAfter
  /\ last.preLog >= 1
  /\ Len(auditLogs) = last.preLog + 1

\* C4: a restore that goes through appends exactly one audit entry and
\* leaves the entry it restored from in the log unchanged; the new entry is
\* a DELETE when a CREATE entry was restored and a RESTORE otherwise, one
\* RESTORE for a BATCH entry whatever its size.
C4_RestoreAppendsOne ==
  (last.op = "restore" /\ last.ok) =>
    /\ Len(auditLogs) = last.preLog + 1
    /\ \E n \in 1..last.preLog : auditLogs[n] = last.entry
    /\ auditLogs[Len(auditLogs)] = last.appended
    /\ last.appended.action =
         (IF last.entry.action = "CREATE" THEN "DELETE" ELSE "RESTORE")

C4_Witness ==
  /\ last.op = "restore"
  /\ last.ok
  /\ last.entry.action = "CREATE"
  /\ last.appended.action = "DELETE"

\* C5: for a BATCH entry whose payload holds C changes and D deletions the
\* resolver gives C + D inverse operations: the originalProperty of every
\* change that carries one and every deletion as upserts, the property of
\* every change that carries none as deletes.
C5_BatchInverses ==
  (last.op = "restore" /\ last.ok /\ last.entry.action = "BATCH") =>
    LET changes == last.entry.json.changes
        deletions == last.entry.json.deletions
        updates == SelectSeq(changes, LAMBDA c : c.originalProperty # NoProperty)
        creates == SelectSeq(changes, LAMBDA c : c.originalProperty = NoProperty)
    IN /\ Len(last.restored) + Len(last.deleted) = Len(changes) + Len(deletions)
       /\ last.restored =
            [i \in 1..Len(updates) |-> updates[i].originalProperty] \o deletions
       /\ last.deleted = [i \in 1..Len(creates) |-> creates[i].property]

C5_Witness ==
  /\ last.op = "restore"
  /\ last.ok
  /\ last.entry.action = "BATCH"
  /\ Len(last.entry.json.changes) = 2
  /\ Len(last.entry.json.deletions) = 1
  /\ Len(last.restored) = 2
  /\ Len(last.deleted) = 1

\* C6: restoring a BATCH entry whose newValue is missing or is not the text
\* of a payload reports an error, appends no audit entry and leaves the
\* property store unchanged.
C6_MalformedBatchRejected ==
  (/\ last.op = "restore"
   /\ last.entry.action = "BATCH"
   /\ last.entry.newValue # JsonText) =>
    /\ ~last.ok
    /\ Len(auditLogs) = last.preLog
    /\ dbProps = last.preDb

\* C7: a save of exactly one operation records the single-item action: DELETE
\* for one deletion, UPDATE for one change whose id is in the store, CREATE
\* for one change whose id is not.
C7_SingleItemAction ==
  (/\ last.op = "save"
   /\ last.ok
   /\ Len(last.changes) + Len(last.deletions) = 1) =>
    /\ last.appended # NoEntry
    /\ last.appended.action =
         (IF Len(last.deletions) = 1 THEN "DELETE"
          ELSE IF last.inStore THEN "UPDATE" ELSE "CREATE")

C7_Witness ==
  /\ last.op = "save"
  /\ last.ok
  /\ Len(last.changes) = 0
  /\ Len(last.deletions) = 1
  /\ last.appended # NoEntry
  /\ last.appended.action = "DELETE"

\* C8: a save appends a BATCH entry only when its changes and deletions
\* together number more than one.
C8_BatchOnlyAboveOne ==
  (/\ last.op = "save"
   /\ last.ok
   /\ last.appended # NoEntry
   /\ last.appended.action = "BATCH") =>
    Len(last.changes) + Len(last.deletions) > 1

\* C9: a save that completes appends exactly one audit entry, however many
\* changes and deletions it carries.
C9_SaveAppendsOne ==
  (last.op = "save" /\ last.ok) => Len(auditLogs) = last.preLog + 1

C9_Witness ==
  /\ last.op = "save"
  /\ last.ok
  /\ Len(last.changes) + Len(last.deletions) >= 2
  /\ Len(auditLogs) = last.preLog + 1

\* C10: createAuditLog fills the value and description fields by action:
\* CREATE the new fields from the property and no old fields, DELETE the old
\* fields from the property and no new fields, UPDATE with an oldProperty
\* the old fields from oldProperty and the new fields from the property.
C10_FieldsByAction ==
  \A i \in 1..Len(last.made) :
    LET m == last.made[i]
        r == m.result
    IN /\ m.action = "CREATE" =>
            /\ r.newValue = m.property.value
            /\ r.newDescription = m.property.description
            /\ r.oldValue = Absent
            /\ r.oldDescription = Absent
       /\ m.action = "DELETE" =>
            /\ r.oldValue = m.property.value
            /\ r.oldDescription = m.property.description
            /\ r.newValue = Absent
            /\ r.newDescription = Absent
       /\ (m.action = "UPDATE" /\ m.oldProperty # NoProperty) =>
            /\ r.oldValue = m.oldProperty.value
            /\ r.oldDescription = m.oldProperty.description
            /\ r.newValue = m.property.value
            /\ r.newDescription = m.property.description

C10_Witness ==
  /\ last.op = "save"
  /\ last.ok
  /\ Len(last.made) = 1
  /\ last.made[1].action = "UPDATE"
  /\ last.made[1].oldProperty # NoProperty
  /\ last.made[1].oldProperty.value # last.made[1].property.value
  /\ last.made[1].result.oldValue = last.made[1].oldProperty.value

\* The four value and description fields of an audit entry.
ValueFields(a) ==
  <<a.oldValue, a.newValue, a.oldDescription, a.newDescription>>

\* C11 (as stated): the entry createAuditLog builds for RESTORE has the same
\* oldValue, newValue, oldDescription and newDescription as the entry it
\* builds for UPDATE from the same property and oldProperty, given or not.
C11_RestoreLikeUpdate ==
  (call.op = "createAuditLog" /\ call.made.action = "RESTORE") =>
    ValueFields(call.made.result) =
      ValueFields(createAuditLog("UPDATE", call.made.property,
                                 call.made.oldProperty))

\* C11 (amended): createAuditLog returns a RESTORE entry for the property
\* whether or not an oldProperty is given, and the entry carries none of
\* oldValue, newValue, oldDescription and newDescription; it has the fields
\* of the UPDATE entry exactly when no oldProperty is given.
C11_RestoreFillsNothing ==
  (call.op = "createAuditLog" /\ call.made.action = "RESTORE") =>
    LET m == call.made IN
    /\ m.result.action = "RESTORE"
    /\ m.result.recordId = m.property.id
    /\ ValueFields(m.result) = <<Absent, Absent, Absent, Absent>>
    /\ (ValueFields(m.result) =
          ValueFields(createAuditLog("UPDATE", m.property, m.oldProperty)))
         <=> (m.oldProperty = NoProperty)

C11_Witness ==
  /\ call.op = "createAuditLog"
  /\ call.made.action = "RESTORE"
  /\ call.made.oldProperty # NoProperty
  /\ call.made.oldProperty.value # call.made.property.value
  /\ call.made.result.oldValue = Absent

\* The last call was an import of file number n into an initialized store.
ImportedInto(n) ==
  /\ call.op = "importFromParquet"
  /\ call.file = n
  /\ call.preConn
  /\ Tables \subseteq call.preCatalog

\* C12: importing the file exported from store contents S into a store with
\* any contents T leaves the property table with exactly the rows of S's
\* property table and the audit table with exactly the rows of S's audit
\* table, field for field, and no row of T.
C12_SnapshotRoundTrip ==
  \A n \in 1..Len(Contents) :
    ImportedInto(n) =>
      /\ ~call.threw
      /\ Len(dbProps) = Len(Contents[n].props)
      /\ Range(dbProps) = Range(Contents[n].props)
      /\ Len(auditLogs) = Len(Contents[n].audits)
      /\ Range(auditLogs) = Range(Contents[n].audits)

C12_Witness ==
  /\ ImportedInto(2)
  /\ call.preProps # << >>
  /\ Range(call.preProps) # Range(Contents[2].props)
  /\ call.preAudit # << >>
  /\ Range(call.preAudit) # Range(Contents[2].audits)
  /\ Range(auditLogs) = Range(Contents[2].audits)

\* C13: importing a legacy file (no table_type column) leaves the property
\* table with exactly the file's rows and every row of the audit table as
\* it was.
C13_LegacyImport ==
  \A n \in (Len(ExportedFiles) + 1)..(Len(ExportedFiles) + Len(LegacyFiles)) :
    ImportedInto(n) =>
      /\ ~call.threw
      /\ Len(dbProps) = Len(SnapshotFiles[n].rows)
      /\ Range(dbProps) = Range(SnapshotFiles[n].rows)
      /\ auditLogs = call.preAudit

C13_Witness ==
  /\ ImportedInto(Len(ExportedFiles) + 1)
  /\ call.preProps # << >>
  /\ call.preAudit # << >>
  /\ Range(dbProps) # Range(call.preProps)
  /\ auditLogs = call.preAudit

\* C14: an import that fails leaves the property table and the audit table
\* with exactly the rows they held before the call.
C14_ImportAllOrNothing ==
  (call.op = "importFromParquet" /\ call.threw) =>
    /\ dbProps = call.preProps
    /\ auditLogs = call.preAudit

StoreOperations ==
  {"insertProperties", "insertAuditLog", "queryProperties", "queryAuditLogs",
   "exportToParquet", "importFromParquet"}

\* C15 (as stated): a store operation invoked before initialize has
\* completed, or after close, throws and changes no table.
C15_UninitializedFails ==
  (/\ call.op \in StoreOperations
   /\ ~(call.preConn /\ Tables \subseteq call.preCatalog)) =>
    /\ call.threw
    /\ dbProps = call.preProps
    /\ auditLogs = call.preAudit

\* C15 (amended): a store operation invoked while the service has no
\* connection, before initialize has connected or after close, throws and
\* changes no table.
C15_UnconnectedFails ==
  (call.op \in StoreOperations /\ ~call.preConn) =>
    /\ call.threw
    /\ dbProps = call.preProps
    /\ auditLogs = call.preAudit
    /\ catalog = call.preCatalog
    /\ ~conn

C15_Witness ==
  /\ call.op = "insertProperties"
  /\ ~call.preConn
  /\ call.threw
  /\ dbProps = << >>

Triples(parsed) ==
  { <<parsed[i].key, parsed[i].value, parsed[i].description>> :
      i \in 1..Len(parsed) }

\* C16: parsing a file, writing the parsed properties out and parsing the
\* output gives the same set of (key, value, description) triples as the
\* first parse, also for properties whose description is empty.
C16_TextRoundTrip ==
  call.op = "generate" => Triples(call.again) = Triples(call.result)

\* A property line: not blank, not a comment, with a separator and a key.
IsPropertyLine(line) ==
  LET t == Trim(line) IN
  /\ t # << >>
  /\ ~IsComment(t)
  /\ Search(t) # 0
  /\ Trim(SubSeq(t, 1, Search(t) - 1)) # << >>

\* The non-blank lines above line n.
NonBlankAbove(lines, n) == {m \in 1..(n - 1) : Trim(lines[m]) # << >>}

Nearest(lines, n) ==
  CHOOSE m \in NonBlankAbove(lines, n) :
    \A k \in NonBlankAbove(lines, n) : k <= m

\* C17: parse gives every property line the key before and the value after
\* its first = or :, both trimmed, and as description the text of the
\* nearest non-blank line above when that line is a comment (marker removed,
\* trimmed) and the empty description otherwise; no property line lies
\* between a property line and the comment it got its description from.
C17_ParseDescriptions ==
  call.op = "parse" =>
    \A n \in 1..Len(call.content) :
      IsPropertyLine(call.content[n]) =>
        \E i \in 1..Len(call.result) :
          LET p == call.result[i]
              t == Trim(call.content[n])
              above == NonBlankAbove(call.content, n)
              m == Nearest(call.content, n)
          IN /\ p.lineNumber = n
             /\ p.key = Trim(SubSeq(t, 1, Search(t) - 1))
             /\ p.value = Trim(SubSeq(t, Search(t) + 1, Len(t)))
             /\ IF above # {} /\ IsComment(Trim(call.content[m]))
                THEN /\ p.description = Trim(Tail(Trim(call.content[m])))
                     /\ \A j \in (m + 1)..(n - 1) :
                          ~IsPropertyLine(call.content[j])
                ELSE p.description = << >>

C17_Witness ==
  /\ call.op = "parse"
  /\ Len(call.content) = 3
  /\ IsComment(call.content[1])
  /\ Trim(call.content[2]) = << >>
  /\ Len(call.result) = 1
  /\ call.result[1].lineNumber = 3
  /\ call.result[1].description = <<"d">>

\* A step of Save: the grid as it is before, the change list as handed on.
SaveStep ==
  /\ hasChanges
  /\ clock' = clock + 1
  /\ last'.op = "save"
  /\ editedRows' = << >>
  /\ pendingProperties' = << >>
  /\ deletingProperties' = << >>

\* The part of a save's change list that the diff of the edited rows gives;
\* the pending properties come first.
DiffOf(changes) == SubSeq(changes, Len(pendingProperties) + 1, Len(changes))

CountFor(changes, key, env) ==
  Cardinality({i \in 1..Len(changes) :
                 changes[i].key = key /\ changes[i].environment = env})

Differs(editedRow, originalRow, env) ==
  \/ editedRow.key # originalRow.key
  \/ editedRow.description # originalRow.description
  \/ editedRow.vals[env] # originalRow.vals[env]

Emits(i, env) ==
  LET editedRow == editedRows[i]
      originalRow == RowOf(groupedProperties, editedRow.id)
  IN /\ originalRow # NoProperty
     /\ env \in Range(environments)
     /\ Differs(editedRow, originalRow, env)
     /\ \/ \E p \in Range(filteredProperties) :
             p.key = originalRow.key /\ p.environment = env
        \/ ~Falsy(editedRow.vals[env])

Having(list, key, component, env) ==
  {i \in 1..Len(list) : /\ list[i].key = key
                        /\ list[i].component = component
                        /\ list[i].environment = env}

Targets ==
  IF call.environments.given THEN Range(call.environments.list)
  ELSE {p.environment : p \in Range(call.existingProperties)}

Rewrites(kinds) ==
  /\ dbProps' # dbProps
  /\ last'.op \in kinds
  /\ last'.ok

\* The audit table after the step is the one before with entries added.
AppendsEntry ==
  /\ IsPrefix(auditLogs, auditLogs')
  /\ Len(auditLogs') > Len(auditLogs)

\* C20 (as stated): every completed delete, batch save, restore and snapshot
\* import that changes the property table appends at least one audit entry
\* in the same step.
C20_EveryRewriteAudited ==
  [][Rewrites({"save", "delete", "restore", "import"}) => AppendsEntry]_vars

\* C20 (amended): every completed delete, batch save and restore that
\* changes the property table appends at least one audit entry in the same
\* step.
C20_EditsAudited ==
  [][Rewrites({"save", "delete", "restore"}) => AppendsEntry]_vars

\* A delete that went through: the property table has changed and the audit
\* table ends with the DELETE entry of the deleted property.
C20_Witness ==
  /\ last.op = "delete"
  /\ last.ok
  /\ dbProps # last.preDb
  /\ Len(auditLogs) = last.preLog + 1
  /\ auditLogs[Len(auditLogs)].action = "DELETE"
  /\ auditLogs[Len(auditLogs)].recordId = last.deletions[1].id

\* An invocation has a store statement outstanding: its rewrite or its audit
\* append has started and has not returned or thrown.
InFlight(h) == h.status = "running" /\ Phase(h) \in {"rewrite", "audit"}

\* C21: at no time do two handler invocations have a property-table rewrite
\* or an audit append in flight.
C21_NoOverlap ==
  Cardinality({n \in 1..Len(running) : InFlight(running[n])}) <= 1

\* The .properties files of an environment folder whose read succeeds.
ReadableFiles(handle) ==
  {fileName \in Range(FileNames) :
     endsWithProperties(fileName) /\ handle.entries[fileName] = "readable"}

\* The environment folders that can be listed and have such a file.
ReadableEnvironments(folder) ==
  {environment \in Range(DirectoryNames) :
     LET handle == folder.entries[environment]
     IN handle.kind = "directory" /\ handle.listed
        /\ ReadableFiles(handle) # {}}

\* C22: a scan of a folder whose entries can be listed does not throw,
\* whatever file reads fail; it returns the environments that have a
\* readable .properties file, each with exactly its readable .properties
\* files; the fileOrder of the files of an environment are 0, 1, ... in
\* order, and so are the environmentOrder of the environments.
C22_ScanCompletes ==
  (call.op = "scan" /\ call.folder.listed) =>
    LET structures == call.result.structures
    IN /\ ~call.result.threw
       /\ {st.environment : st \in Range(structures)} =
            ReadableEnvironments(call.folder)
       /\ \A n \in 1..Len(structures) :
            /\ structures[n].environmentOrder = n - 1
            /\ {f.name : f \in Range(structures[n].files)} =
                 ReadableFiles(call.folder.entries[structures[n].environment])
            /\ \A m \in 1..Len(structures[n].files) :
                 structures[n].files[m].fileOrder = m - 1

\* In e1 the read of a.properties fails and b.properties is returned with
\* fileOrder 0; e2, after a folder that cannot be listed or has no readable
\* file, is not returned.
C22_Witness ==
  /\ call.op = "scan"
  /\ call.folder.listed
  /\ call.folder.entries["e1"].kind = "directory"
  /\ call.folder.entries["e1"].entries["a.properties"] = "unreadable"
  /\ call.folder.entries["e2"].kind = "directory"
  /\ ~call.folder.entries["e2"].listed
  /\ Len(call.result.structures) = 1
  /\ Len(call.result.structures[1].files) = 1
  /\ call.result.structures[1].files[1].name = "b.properties"
  /\ call.result.structures[1].files[1].fileOrder = 0

\* Both stores have been exported and hold the same rows.
SameRowsExported ==
  /\ call.op = "exportToParquet"
  /\ call.blobs[1] # NoBlob
  /\ call.blobs[2] # NoBlob
  /\ LET first == ExportStores[call.stores[1]]
         second == ExportStores[call.stores[2]]
     IN /\ Len(first.props) = Len(second.props)
        /\ Range(first.props) = Range(second.props)
        /\ Len(first.audits) = Len(second.audits)
        /\ Range(first.audits) = Range(second.audits)

\* C23: the exports of two stores that hold the same property rows and the
\* same audit rows are the same sequence of rows.
C23_ExportDeterministic ==
  SameRowsExported => call.blobs[1].rows = call.blobs[2].rows

\* The audit table holds the entry an invocation was to append.
Appended(h) ==
  \E m \in 1..Len(h.logs), e \in Range(auditLogs) : e.id = h.logs[m].id

\* C24: an edit, a delete and a batch save append their audit entry only
\* when their rewrite of the property table has returned, and a restore
\* sends the first statement of its rewrite only when its append has
\* returned; so an edit, delete or save that fails after its rewrite leaves
\* the table rewritten and no audit entry, and a restore that fails after
\* its append leaves the entry and the table not rewritten.
C24_WriteOrder ==
  \A n \in 1..Len(running) :
    LET h == running[n] IN
    IF h.handler = "restore"
    THEN /\ h.i > 0 => (h.audited /\ Appended(h))
         /\ (h.status = "failed" /\ h.audited) => (Appended(h) /\ ~h.rewritten)
    ELSE /\ (h.j > 1 \/ Appended(h)) => h.rewritten
         /\ (h.status = "failed" /\ h.rewritten) =>
              /\ ~Appended(h)
              /\ Len(running) = 1 =>
                   dbProps = insertProperties(h.updatedProperties).rows
         /\ (h.status = "failed" /\ ~h.rewritten) => ~Appended(h)

\* A restore whose append went through and whose rewrite was rejected: the
\* audit table ends with the restore's entry, the property table is not the
\* restored list.
C24_Witness ==
  /\ Len(running) = 1
  /\ running[1].handler = "restore"
  /\ running[1].status = "failed"
  /\ running[1].audited
  /\ auditLogs # << >>
  /\ auditLogs[Len(auditLogs)].id = running[1].logs[1].id
  /\ dbProps # insertProperties(running[1].updatedProperties).rows

\* The grid's delete action has run to completion: every invocation it
\* started has finished without an error.
DeleteCompleted ==
  /\ running # << >>
  /\ \A n \in 1..Len(running) :
       running[n].handler = "delete" /\ running[n].status = "done"

\* C28: when the grid's delete action on a key has run to completion, no
\* property with the key is in the store or in the application's list, the
\* audit log has a DELETE entry for each property that was to be removed
\* and none for a property that is in the store.
C28_DeletedFromAll ==
  DeleteCompleted =>
    LET key == running[1].removed[1].key IN
    /\ \A p \in Range(dbProps) : p.key # key
    /\ \A p \in Range(properties) : p.key # key
    /\ \A n \in 1..Len(running) :
         \E e \in Range(auditLogs) :
           e.action = "DELETE" /\ e.recordId = running[n].removed[1].id
    /\ \A e \in Range(auditLogs) :
         e.action = "DELETE" => \A p \in Range(dbProps) : p.id # e.recordId

\* A property is named by a change or deletion that has its id, or its
\* environment, key and component.
Named(p, list) ==
  \E c \in Range(list) :
    \/ c.id = p.id
    \/ c.environment = p.environment /\ c.key = p.key
       /\ c.component = p.component

\* C25: after a batch save that went through, every property of the list it
\* started from that neither its changes nor its deletions name is in the
\* store and in the application's list with all its fields as before.
C25_BatchSaveFrame ==
  (/\ Len(running) = 1
   /\ running[1].handler = "save"
   /\ running[1].status = "done") =>
    \A p \in Range(running[1].before) :
      ~Named(p, running[1].changes \o running[1].removed) =>
        /\ PropertyRow(p) \in Range(dbProps)
        /\ p \in Range(properties)

\* Edited row i has another key than the row it was made from.
Renamed(i) ==
  LET originalRow == RowOf(groupedProperties, editedRows[i].id)
  IN originalRow # NoProperty /\ editedRows[i].key # originalRow.key

\* C26: after the save of a grid in which a row's key was edited, the store
\* holds a property with the new key, and none with the old key, in every
\* environment in which the row had a property, and no two properties of
\* the store share an id.
C26_RenameMoves ==
  [][(SaveStep /\ \E i \in 1..Len(editedRows) : Renamed(i)) =>
       /\ \A i \in 1..Len(editedRows) :
            Renamed(i) =>
              \A p \in Range(filteredProperties) :
                p.key = RowOf(groupedProperties, editedRows[i].id).key =>
                  /\ \E r \in Range(dbProps') :
                       /\ r.key = editedRows[i].key
                       /\ r.environment = p.environment
                  /\ \A r \in Range(dbProps') :
                       ~(r.key = p.key /\ r.environment = p.environment)
       /\ DistinctIds(dbProps')]_vars

\* C27: a property read back from the store has the environmentOrder, the
\* fileOrder and the lineOrder it was written with, the value 0 included,
\* and the serializer's output for the properties read is its output for
\* the properties written.
C27_OrderRoundTrip ==
  call.op = "read" =>
    /\ \A i \in 1..Len(call.written) :
         \E j \in 1..Len(call.read) :
           /\ call.read[j].key = call.written[i].key
           /\ call.read[j].environmentOrder = call.written[i].environmentOrder
           /\ call.read[j].fileOrder = call.written[i].fileOrder
           /\ call.read[j].lineOrder = call.written[i].lineOrder
    /\ call.after = call.before

\* C29: each entry of the audit log with action CREATE, UPDATE, DELETE or
\* BATCH is listed on some page from 1 to totalPages of the audit page.
C29_EveryEntryReachable ==
  call.op = "loaded" =>
    \A i \in 1..Len(call.log) :
      canRestore(call.log[i]) =>
        \E p \in 1..call.totalPages :
          \E j \in 1..Len(loadAuditLogs(call.log, p).auditLogs) :
            loadAuditLogs(call.log, p).auditLogs[j].id = call.log[i].id

\* C30: the file name of the component of a .properties file name is that
\* file name, and two different file names of one environment have
\* different components.
C30_FileNameRoundTrip ==
  call.op = "components" =>
    /\ \A i \in 1..2 : call.written[i] = call.files[i]
    /\ call.components[1] # call.components[2]

====
